---- MODULE Spec2Model ----
(***************************************************************************)
(* Model of the lcd1602 driver: the PCF8574 bus transport (lcd_io.c) and   *)
(* the HD44780 display protocol (lcd_ctrl.c).  The LCDDev context, the     *)
(* process's file-descriptor table and the byte last sent to the expander  *)
(* are the state; every public function of the driver is an operation.     *)
(* System calls (open, ioctl, write, read, close) are recorded in the log  *)
(* ev of the step that makes them; the environment chooses their outcomes. *)
(***************************************************************************)
EXTENDS Integers, Sequences, FiniteSets, TLC

VARIABLES pDev, files, sent, ev, op, pc, result, wb, fr, out, arg

vars == <<pDev, files, sent, ev, op, pc, result, wb, fr, out, arg>>

(* ---- error codes ---- *)
EOK == 0
ENOENT == 2
ENXIO == 6
EMFILE == 24
EBADF == 9
ENODEV == 19
EINVAL == 22
EBUSY == 16
ENOTSUP == 95

(* ---- bounds and input domains ---- *)
MaxFd == 4
FDs == 3..MaxFd
NULL == "NULL"
DefaultDevice == "/dev/i2c-1"
DefaultAddress == 39
AltAddress == 63
AltDevice == "/dev/i2c-2"
Devices == {DefaultDevice, AltDevice, NULL}
Addresses == {DefaultAddress, AltAddress}
\* upper nibbles the expander can return on a read: bit 3 of the first
\* nibble of a status read is the busy flag
Nibbles == {0, 8}
ReadFail == -1
Samples == Nibbles \cup {ReadFail}
\* outcome of one open()+ioctl() attempt: both succeed, open fails with an
\* errno, or the ioctl fails
OpenOutcome == {"ok", "enoent", "eioctl"}
OpenFails == {"enoent"}
Errno(o) == IF o = "enoent" THEN ENOENT ELSE EMFILE
RSValues == {0, 1, 2}
ByteValues == {165}
\* caller buffers handed to DisplayLine, as <<offset, bytes of the buffer>>:
\* lcd.c passes 17-byte buffers cleared with 0 (line 1) or 0x20 (line 2); a
\* buffer may also carry bytes after its terminator, or be shorter than the
\* 17 bytes DisplayLine reads
Pad(s, b) == s \o [i \in 1..(17 - Len(s)) |-> b]
HelloWorld == <<72, 101, 108, 108, 111, 32, 87, 111, 114, 108, 100>>
Sixteen == [i \in 1..16 |-> 64 + i]
LineInputs ==
    { <<0, Pad(<<72, 105>>, 0)>>,
      <<64, Pad(<<72>>, 32)>>,
      <<0, Pad(HelloWorld, 0)>>,
      <<64, Pad(Sixteen, 0)>>,
      <<0, Pad(<<>>, 0)>>,
      <<0, Pad(<<72, 0, 88, 89>>, 0)>>,
      <<64, <<72, 105, 0>>>> }
\* what a read past the end of a short buffer can find there
Garbage == {0, 90}
Beyond(buf) == IF Len(buf) >= 17 THEN {0} ELSE Garbage

Min(S) == CHOOSE x \in S : \A y \in S : x <= y

(* ---- the packed control register (union of CtrlReg and regval) ---- *)
RegVal(r) == r.RS + 2 * r.RW + 4 * r.EN + 8 * r.LED + 16 * r.D4

\* an entry of the descriptor table, with the path and slave address it was
\* set up with and the exclusive flag the context had when it was opened
ClosedFile == [open |-> FALSE, path |-> "", addr |-> -1, excl |-> FALSE]

Ev(c, f, v, k) == [call |-> c, fd |-> f, val |-> v, ok |-> k]

(* ---- system calls: m is the machine (context, fd table, last byte sent, log) ---- *)
Ret(m, r) == [m EXCEPT !.ret = r]

c_open(m, o) ==
    LET free == {f \in FDs : ~m.files[f].open} IN
    IF o \notin OpenFails /\ free # {}
    THEN LET f == Min(free) IN
         [m EXCEPT !.files[f] = [open |-> TRUE, path |-> m.dev.device, addr |-> -1,
                                   excl |-> m.dev.exclusive],
                   !.ev = Append(@, Ev("open", f, 0, TRUE)),
                   !.ret = f]
    ELSE [m EXCEPT !.ev = Append(@, Ev("open", -1, Errno(o), FALSE)),
                   !.ret = -1, !.errno = Errno(o)]

c_ioctl(m, f, o) ==
    IF o # "eioctl"
    THEN [m EXCEPT !.files[f].addr = m.dev.address,
                   !.ev = Append(@, Ev("ioctl", f, m.dev.address, TRUE)),
                   !.ret = 0]
    ELSE [m EXCEPT !.ev = Append(@, Ev("ioctl", f, m.dev.address, FALSE)), !.ret = -1]

\* sent is the byte most recently handed to write(); whether the expander
\* acknowledged it is the ok flag of the logged event
c_write(m, f, wok) ==
    LET k == wok /\ m.files[f].open IN
    [m EXCEPT !.sent = RegVal(m.dev.reg),
              !.ev = Append(@, Ev("write", f, RegVal(m.dev.reg), k)),
              !.ret = IF k THEN 1 ELSE -1]

\* a successful read returns the sampled nibble on P7..P4 and the control
\* lines on P3..P0; a failed read leaves the caller's buffer as it was
c_read(m, f, s) ==
    IF s # ReadFail /\ m.files[f].open
    THEN [m EXCEPT !.data = 16 * s + (RegVal(m.dev.reg) % 16),
                   !.ev = Append(@, Ev("read", f, 16 * s + (RegVal(m.dev.reg) % 16), TRUE)),
                   !.ret = 1]
    ELSE [m EXCEPT !.ev = Append(@, Ev("read", f, 0, FALSE)), !.ret = -1]

c_close(m, f) ==
    [m EXCEPT !.files[f] = ClosedFile,
              !.ev = Append(@, Ev("close", f, 0, m.files[f].open))]

(* ---- lcd_io.c ---- *)
InitDev ==
    [device |-> DefaultDevice, fd |-> -1, busy |-> FALSE, exclusive |-> FALSE,
     address |-> DefaultAddress, AddressCounter |-> 0, cx |-> 0, cy |-> 0,
     reg |-> [RS |-> 0, RW |-> 0, EN |-> 0, LED |-> 1, D4 |-> 0]]

\* LCDOpen that touches the bus although the connection is already held
LCDOpen_rewrite(m, o, wok) ==
    IF m.dev.fd = -1
    THEN IF m.dev.device # NULL
         THEN LET m1 == c_open(m, o)
                  fd == m1.ret
              IN IF fd # -1
                 THEN LET m2 == c_ioctl(m1, fd, o) IN
                      IF m2.ret >= 0
                      THEN Ret([c_write(m2, fd, wok) EXCEPT !.dev.fd = fd], EOK)
                      ELSE Ret(c_close(m2, fd), ENXIO)
                 ELSE Ret(m1, m1.errno)
         ELSE Ret(m, ENODEV)
    ELSE Ret(c_write(m, m.dev.fd, wok), EOK)

\* LCDOpen that forgets close( fd ) when the ioctl fails
LCDOpen_leak(m, o, wok) ==
    IF m.dev.fd = -1
    THEN IF m.dev.device # NULL
         THEN LET m1 == c_open(m, o)
                  fd == m1.ret
              IN IF fd # -1
                 THEN LET m2 == c_ioctl(m1, fd, o) IN
                      IF m2.ret >= 0
                      THEN Ret([c_write(m2, fd, wok) EXCEPT !.dev.fd = fd], EOK)
                      ELSE Ret(m2, ENXIO)
                 ELSE Ret(m1, m1.errno)
         ELSE Ret(m, ENODEV)
    ELSE Ret(m, EOK)

LCDOpen(m, o, wok) ==
    IF m.dev.fd = -1
    THEN IF m.dev.device # NULL
         THEN LET m1 == c_open(m, o)
                  fd == m1.ret
              IN IF fd # -1
                 THEN LET m2 == c_ioctl(m1, fd, o) IN
                      IF m2.ret >= 0
                      THEN LET m3 == c_write(m2, fd, wok) IN
                           Ret([m3 EXCEPT !.dev.fd = fd], EOK)
                      ELSE Ret(c_close(m2, fd), ENXIO)
                 ELSE Ret(m1, m1.errno)
         ELSE Ret(m, ENODEV)
    ELSE Ret(m, EOK)

\* LCDClose that ignores the exclusive flag
LCDClose_always(m) ==
    IF m.dev.fd # -1
    THEN Ret([c_close(m, m.dev.fd) EXCEPT !.dev.fd = -1], EOK)
    ELSE Ret(m, EOK)

\* LCDClose that never releases the connection
LCDClose_never(m) == Ret(m, EOK)

\* LCDClose that goes by the exclusive flag the connection was opened under
LCDClose_asOpened(m) ==
    IF m.dev.fd # -1 /\ m.files[m.dev.fd].excl = FALSE
    THEN Ret([c_close(m, m.dev.fd) EXCEPT !.dev.fd = -1], EOK)
    ELSE Ret(m, EOK)

LCDClose(m) ==
    IF m.dev.fd # -1 /\ m.dev.exclusive = FALSE
    THEN Ret([c_close(m, m.dev.fd) EXCEPT !.dev.fd = -1], EOK)
    ELSE Ret(m, EOK)

\* writeReg that treats a held connection as transient and closes it
writeReg_closes(m0, o, wok) ==
    LET m == [m0 EXCEPT !.imgs = Append(@, RegVal(m0.dev.reg))]
        fd == m.dev.fd
    IN
    IF fd # -1
    THEN Ret([c_close(c_write(m, fd, wok), fd) EXCEPT !.dev.fd = -1], EOK)
    ELSE IF m.dev.device # NULL
         THEN LET m1 == c_open(m, o)
                  nfd == m1.ret
              IN IF nfd # -1
                 THEN LET m2 == c_ioctl(m1, nfd, o) IN
                      IF m2.ret >= 0
                      THEN Ret(c_close(c_write(m2, nfd, wok), nfd), EOK)
                      ELSE Ret(c_close(m2, nfd), ENXIO)
                 ELSE Ret(m1, m1.errno)
         ELSE Ret(m, ENODEV)

\* writeReg that caches the transient descriptor instead of closing it
writeReg_keeps(m0, o, wok) ==
    LET m == [m0 EXCEPT !.imgs = Append(@, RegVal(m0.dev.reg))]
        fd == m.dev.fd
    IN
    IF fd # -1
    THEN Ret(c_write(m, fd, wok), EOK)
    ELSE IF m.dev.device # NULL
         THEN LET m1 == c_open(m, o)
                  nfd == m1.ret
              IN IF nfd # -1
                 THEN LET m2 == c_ioctl(m1, nfd, o) IN
                      IF m2.ret >= 0
                      THEN Ret([c_write(m2, nfd, wok) EXCEPT !.dev.fd = nfd], EOK)
                      ELSE Ret(c_close(m2, nfd), ENXIO)
                 ELSE Ret(m1, m1.errno)
         ELSE Ret(m, ENODEV)

writeReg(m0, o, wok) ==
    LET m == [m0 EXCEPT !.imgs = Append(@, RegVal(m0.dev.reg))]
        fd == m.dev.fd
    IN
    IF fd # -1
    THEN Ret(c_write(m, fd, wok), EOK)
    ELSE IF m.dev.device # NULL
         THEN LET m1 == c_open(m, o)
                  nfd == m1.ret
              IN IF nfd # -1
                 THEN LET m2 == c_ioctl(m1, nfd, o) IN
                      IF m2.ret >= 0
                      THEN Ret(c_close(c_write(m2, nfd, wok), nfd), EOK)
                      ELSE Ret(c_close(m2, nfd), ENXIO)
                 ELSE Ret(m1, m1.errno)
         ELSE Ret(m, ENODEV)

\* latch that leaves the strobe high: the second transfer repeats EN = 1
latch_high(m, o1, o2, wok) ==
    LET m1 == writeReg([m EXCEPT !.dev.reg.EN = 1], o1, wok)
        m2 == writeReg(m1, o2, wok)
    IN Ret(m2, EOK)

latch(m, o1, o2, wok) ==
    LET m1 == writeReg([m EXCEPT !.dev.reg.EN = 1], o1, wok)
        m2 == writeReg([m1 EXCEPT !.dev.reg.EN = 0], o2, wok)
    IN Ret(m2, EOK)

\* readByte that takes the low nibble from bits 3..0 of the second sample
readByte_lowbits(m, s1, s2, wok) ==
    IF m.dev.fd # -1
    THEN LET fd == m.dev.fd
             a0 == [m EXCEPT !.data = 0,
                             !.dev.reg.RS = 0, !.dev.reg.RW = 1, !.dev.reg.D4 = 15]
             a1 == c_write(a0, fd, wok)
             a2 == c_write([a1 EXCEPT !.dev.reg.EN = 1], fd, wok)
             a3 == c_read(a2, fd, s1)
             data_high == (a3.data \div 16) * 16
             a4 == c_write([a3 EXCEPT !.dev.reg.EN = 0], fd, wok)
             a5 == c_write([a4 EXCEPT !.dev.reg.EN = 1], fd, wok)
             a6 == c_read(a5, fd, s2)
             data_low == a6.data % 16
             a7 == c_write([a6 EXCEPT !.dev.reg.EN = 0], fd, wok)
         IN Ret([a7 EXCEPT !.val = data_high + data_low], EOK)
    ELSE Ret(m, EBADF)

\* readByte that sets every bit above EN, the backlight bit included
readByte_ledon(m, s1, s2, wok) ==
    IF m.dev.fd # -1
    THEN LET fd == m.dev.fd
             a0 == [m EXCEPT !.data = 0, !.dev.reg.LED = 1,
                             !.dev.reg.RS = 0, !.dev.reg.RW = 1, !.dev.reg.D4 = 15]
             a1 == c_write(a0, fd, wok)
             a2 == c_write([a1 EXCEPT !.dev.reg.EN = 1], fd, wok)
             a3 == c_read(a2, fd, s1)
             data_high == (a3.data \div 16) * 16
             a4 == c_write([a3 EXCEPT !.dev.reg.EN = 0], fd, wok)
             a5 == c_write([a4 EXCEPT !.dev.reg.EN = 1], fd, wok)
             a6 == c_read(a5, fd, s2)
             data_low == a6.data \div 16
             a7 == c_write([a6 EXCEPT !.dev.reg.EN = 0], fd, wok)
         IN Ret([a7 EXCEPT !.val = data_high + data_low], EOK)
    ELSE Ret(m, EBADF)

\* readByte: the status byte is left in m.val
readByte(m, s1, s2, wok) ==
    IF m.dev.fd # -1
    THEN LET fd == m.dev.fd
             a0 == [m EXCEPT !.data = 0,
                             !.dev.reg.RS = 0, !.dev.reg.RW = 1, !.dev.reg.D4 = 15]
             a1 == c_write(a0, fd, wok)
             a2 == c_write([a1 EXCEPT !.dev.reg.EN = 1], fd, wok)
             a3 == c_read(a2, fd, s1)
             data_high == (a3.data \div 16) * 16
             a4 == c_write([a3 EXCEPT !.dev.reg.EN = 0], fd, wok)
             a5 == c_write([a4 EXCEPT !.dev.reg.EN = 1], fd, wok)
             a6 == c_read(a5, fd, s2)
             data_low == a6.data \div 16
             a7 == c_write([a6 EXCEPT !.dev.reg.EN = 0], fd, wok)
         IN Ret([a7 EXCEPT !.val = data_high + data_low], EOK)
    ELSE Ret(m, EBADF)

\* readStatus that reports a busy controller as EBUSY, as its header says
readStatus_ebusy(m, s1, s2, wok) ==
    IF m.dev.fd # -1
    THEN LET m1 == readByte(m, s1, s2, wok) IN
         IF m1.ret = EOK
         THEN LET ac == m1.val % 128
                  busy == (m1.val \div 128) % 2 = 1
              IN Ret([m1 EXCEPT !.dev.busy = busy,
                                !.dev.AddressCounter = ac,
                                !.dev.cx = (ac % 64) + 1,
                                !.dev.cy = IF ac >= 64 THEN 2 ELSE 1],
                     IF busy THEN EBUSY ELSE EOK)
         ELSE m1
    ELSE Ret(m, EBADF)

\* a column folded onto the 16 visible positions: ( AddressCounter & 0x0F ) + 1
readStatus_wrap16(m, s1, s2, wok) ==
    IF m.dev.fd # -1
    THEN LET m1 == readByte(m, s1, s2, wok) IN
         IF m1.ret = EOK
         THEN LET ac == m1.val % 128 IN
              [m1 EXCEPT !.dev.busy = (m1.val \div 128) % 2 = 1,
                         !.dev.AddressCounter = ac,
                         !.dev.cx = (ac % 16) + 1,
                         !.dev.cy = IF ac >= 64 THEN 2 ELSE 1]
         ELSE m1
    ELSE Ret(m, EBADF)

readStatus(m, s1, s2, wok) ==
    IF m.dev.fd # -1
    THEN LET m1 == readByte(m, s1, s2, wok) IN
         IF m1.ret = EOK
         THEN LET ac == m1.val % 128 IN
              [m1 EXCEPT !.dev.busy = (m1.val \div 128) % 2 = 1,
                         !.dev.AddressCounter = ac,
                         !.dev.cx = (ac % 64) + 1,
                         !.dev.cy = IF ac >= 64 THEN 2 ELSE 1]
         ELSE m1
    ELSE Ret(m, EBADF)

\* GetStatus that refuses to read when no connection is held
GetStatus_unconnected(m, o, s1, s2, wok) ==
    IF m.dev.fd # -1
    THEN readStatus(m, s1, s2, wok)
    ELSE Ret(m, EBADF)

\* GetStatus that reports the controller ready when it cannot be reached
GetStatus_ready(m, o, s1, s2, wok) ==
    LET fd == m.dev.fd IN
    IF fd # -1
    THEN readStatus(m, s1, s2, wok)
    ELSE IF m.dev.device # NULL
         THEN LET m1 == c_open(m, o)
                  nfd == m1.ret
              IN IF nfd # -1
                 THEN LET m2 == c_ioctl(m1, nfd, o)
                          m3 == IF m2.ret >= 0
                                THEN readStatus([m2 EXCEPT !.dev.fd = nfd], s1, s2, wok)
                                ELSE Ret([m2 EXCEPT !.dev.busy = FALSE], ENXIO)
                      IN Ret(c_close([m3 EXCEPT !.dev.fd = -1], nfd), m3.ret)
                 ELSE Ret([m1 EXCEPT !.dev.busy = FALSE], m1.errno)
         ELSE Ret([m EXCEPT !.dev.busy = FALSE], ENODEV)

GetStatus(m, o, s1, s2, wok) ==
    LET fd == m.dev.fd IN
    IF fd # -1
    THEN readStatus(m, s1, s2, wok)
    ELSE IF m.dev.device # NULL
         THEN LET m1 == c_open(m, o)
                  nfd == m1.ret
              IN IF nfd # -1
                 THEN LET m2 == c_ioctl(m1, nfd, o)
                          m3 == IF m2.ret >= 0
                                THEN readStatus([m2 EXCEPT !.dev.fd = nfd], s1, s2, wok)
                                ELSE Ret(m2, ENXIO)
                      IN Ret(c_close([m3 EXCEPT !.dev.fd = -1], nfd), m3.ret)
                 ELSE Ret(m1, m1.errno)
         ELSE Ret(m, ENODEV)

SetExclusive(m, exclusive) == Ret([m EXCEPT !.dev.exclusive = exclusive], EINVAL)

\* a setter that takes the new state back when the transfer fails
SetBacklight_undo(m, backlight, o, wok) ==
    LET m1 == writeReg([m EXCEPT !.dev.reg.LED = IF backlight = TRUE THEN 1 ELSE 0], o, wok)
    IN Ret(IF m1.ret = EOK THEN m1 ELSE [m1 EXCEPT !.dev.reg.LED = m.dev.reg.LED], EINVAL)

\* SetBacklight that strobes the new image into the controller
SetBacklight_latch(m, backlight, o, wok) ==
    LET m1 == latch([m EXCEPT !.dev.reg.LED = IF backlight = TRUE THEN 1 ELSE 0], o, o, wok)
    IN Ret(m1, EINVAL)

SetBacklight(m, backlight, o, wok) ==
    LET m1 == writeReg([m EXCEPT !.dev.reg.LED = IF backlight = TRUE THEN 1 ELSE 0], o, wok)
    IN Ret(m1, EINVAL)

\* what a call stores through a result pointer or takes as its argument:
\* a bool, an int or a string, kept in one shape
NoValue == [kind |-> "none", b |-> FALSE, n |-> 0, s |-> ""]
BoolValue(x) == [NoValue EXCEPT !.kind = "bool", !.b = x]
IntValue(x) == [NoValue EXCEPT !.kind = "int", !.n = x]
StrValue(x) == [NoValue EXCEPT !.kind = "str", !.s = x]

\* lcd.c: got is whether VAR_Get returned EOK, ui the variable's value
UpdateBacklight(m, got, ui, o, wok) ==
    IF got
    THEN SetBacklight(m, IF ui = 0 THEN FALSE ELSE TRUE, o, wok)
    ELSE Ret(m, EINVAL)

GetExclusive(m) == Ret([m EXCEPT !.out = BoolValue(m.dev.exclusive)], EOK)

GetBacklight(m) == Ret([m EXCEPT !.out = BoolValue(m.dev.reg.LED # 0)], EOK)

GetCursorX(m) == Ret([m EXCEPT !.out = IntValue(m.dev.cx)], EOK)

GetCursorY(m) == Ret([m EXCEPT !.out = IntValue(m.dev.cy)], EOK)

GetAddress(m) == Ret([m EXCEPT !.out = IntValue(m.dev.address)], EOK)

GetDeviceName(m) == Ret([m EXCEPT !.out = StrValue(m.dev.device)], EOK)

\* SetAddress that rebinds a held connection to the new slave address
SetAddress_rebind(m, address) ==
    LET m1 == [m EXCEPT !.dev.address = address]
    IN Ret(IF m.dev.fd # -1 THEN c_ioctl(m1, m.dev.fd, "ok") ELSE m1, EOK)

SetAddress(m, address) == Ret([m EXCEPT !.dev.address = address], EOK)

SetDeviceName(m, name) == Ret([m EXCEPT !.dev.device = name], EOK)

(* ---- the state machine ---- *)
\* imgs: the register images handed to writeReg, in call order
\* out: what the call stored through its result pointer, if it is a getter
NoOut == NoValue
Mach == [dev |-> pDev, files |-> files, sent |-> sent, ev |-> <<>>, imgs |-> <<>>,
         ret |-> 0, val |-> 0, data |-> 0, errno |-> 0, out |-> NoOut]

\* the value a setter was called with, kept with the name of the call
NoArg == NoValue

NoWrite == [pc |-> "none", rs |-> 0, val |-> 0, result |-> EINVAL, xfers |-> <<>>]
\* calls: the byte writes the running function has issued so far
\* fd: the descriptor LCDOpen holds in its local variable until it saves it
NoFrame == [result |-> EINVAL, rc1 |-> 0, i |-> 0, offset |-> 0, line |-> <<>>, calls |-> <<>>,
            fd |-> -1]
Issue(f, fn, rs, val) == [f EXCEPT !.calls = Append(@, [fn |-> fn, rs |-> rs, val |-> val])]

\* transient opens happen only while no connection is held and a device
\* path is configured; otherwise the outcomes are never consulted
Oracles(n) ==
    IF pDev.fd = -1 /\ pDev.device # NULL
    THEN [1..n -> OpenOutcome]
    ELSE {[i \in 1..n |-> "ok"]}

Commit(m) ==
    /\ pDev' = m.dev
    /\ files' = m.files
    /\ sent' = m.sent
    /\ ev' = m.ev

\* a public function that runs to completion in one step
ReturnOf(m, name, a) ==
    /\ Commit(m)
    /\ op' = name
    /\ result' = m.ret
    /\ pc' = "idle"
    /\ wb' = NoWrite
    /\ fr' = NoFrame
    /\ out' = m.out
    /\ arg' = a

Return(m, name) ==
    /\ Commit(m)
    /\ arg' = NoArg
    /\ op' = name
    /\ result' = m.ret
    /\ pc' = "idle"
    /\ wb' = NoWrite
    /\ fr' = NoFrame
    /\ out' = m.out

StartWrite(rs, val) ==
    [pc |-> "hi", rs |-> rs, val |-> val, result |-> EINVAL, xfers |-> <<>>]

Init ==
    /\ pDev = InitDev
    /\ files = [f \in FDs |-> ClosedFile]
    /\ sent = -1
    /\ ev = <<>>
    /\ op = "InitDev"
    /\ pc = "idle"
    /\ result = EOK
    /\ wb = NoWrite
    /\ fr = NoFrame
    /\ out = NoOut
    /\ arg = NoArg

CallLCDOpen ==
    /\ pc = "idle"
    /\ \E os \in Oracles(1), wok \in BOOLEAN :
          Return(LCDOpen(Mach, os[1], wok), "LCDOpen")

CallLCDClose ==
    /\ pc = "idle"
    /\ Return(LCDClose(Mach), "LCDClose")

CallSetExclusive ==
    /\ pc = "idle"
    /\ \E b \in BOOLEAN : ReturnOf(SetExclusive(Mach, b), "SetExclusive", BoolValue(b))

CallSetAddress ==
    /\ pc = "idle"
    /\ \E a \in Addresses : ReturnOf(SetAddress(Mach, a), "SetAddress", IntValue(a))

CallSetDeviceName ==
    /\ pc = "idle"
    /\ \E n \in Devices : ReturnOf(SetDeviceName(Mach, n), "SetDeviceName", StrValue(n))

CallGetExclusive ==
    /\ pc = "idle"
    /\ Return(GetExclusive(Mach), "GetExclusive")

CallGetBacklight ==
    /\ pc = "idle"
    /\ Return(GetBacklight(Mach), "GetBacklight")

CallGetCursorX ==
    /\ pc = "idle"
    /\ Return(GetCursorX(Mach), "GetCursorX")

CallGetCursorY ==
    /\ pc = "idle"
    /\ Return(GetCursorY(Mach), "GetCursorY")

CallGetAddress ==
    /\ pc = "idle"
    /\ Return(GetAddress(Mach), "GetAddress")

CallGetDeviceName ==
    /\ pc = "idle"
    /\ Return(GetDeviceName(Mach), "GetDeviceName")

CallSetBacklight ==
    /\ pc = "idle"
    /\ \E b \in BOOLEAN, os \in Oracles(1), wok \in BOOLEAN :
          ReturnOf(SetBacklight(Mach, b, os[1], wok), "SetBacklight", BoolValue(b))

\* values of the /HW/LCD1602/BACKLIGHT variable
UiValues == {0, 1, 2}

CallUpdateBacklight ==
    /\ pc = "idle"
    /\ \E got \in BOOLEAN, ui \in UiValues, os \in Oracles(1), wok \in BOOLEAN :
          ReturnOf(UpdateBacklight(Mach, got, ui, os[1], wok), "UpdateBacklight",
                   IF got THEN BoolValue(ui # 0) ELSE NoArg)

CallGetStatus ==
    /\ pc = "idle"
    /\ \E os \in Oracles(1), s1 \in Samples, s2 \in Samples, wok \in BOOLEAN :
          Return(GetStatus(Mach, os[1], s1, s2, wok), "GetStatus")

\* a status read against a controller at any address counter
AnySamples == (0..15) \cup {ReadFail}

CallGetStatusAny ==
    /\ pc = "idle"
    /\ \E os \in Oracles(1), s1 \in AnySamples, s2 \in AnySamples :
          Return(GetStatus(Mach, os[1], s1, s2, TRUE), "GetStatus")

CallWriteReg ==
    /\ pc = "idle"
    /\ \E os \in Oracles(1), wok \in BOOLEAN :
          Return(writeReg(Mach, os[1], wok), "writeReg")

CallLatch ==
    /\ pc = "idle"
    /\ \E os \in Oracles(2), wok \in BOOLEAN :
          Return(latch(Mach, os[1], os[2], wok), "latch")

CallReadByte ==
    /\ pc = "idle"
    /\ \E s1 \in Samples, s2 \in Samples, wok \in BOOLEAN :
          LET m == readByte(Mach, s1, s2, wok) IN
          Return([m EXCEPT !.out = IF m.ret = EOK THEN IntValue(m.val) ELSE NoOut],
                 "readByte")

CallReadStatus ==
    /\ pc = "idle"
    /\ \E s1 \in Samples, s2 \in Samples, wok \in BOOLEAN :
          Return(readStatus(Mach, s1, s2, wok), "readStatus")

(* ---- writeByte: a step per statement group, then one step per poll ---- *)
CallWriteByte ==
    /\ pc = "idle"
    /\ \E rs \in RSValues, val \in ByteValues :
          /\ wb' = StartWrite(rs, val)
          /\ op' = "writeByte"
          /\ pc' = "writeByte"
          /\ ev' = <<>>
          /\ out' = NoOut
          /\ arg' = NoArg
          /\ UNCHANGED <<pDev, files, sent, result, fr>>

\* a step of writeByte before the poll: commit m and move to the next statement
WriteByteStep(m, next) ==
    /\ Commit(m)
    /\ wb' = [wb EXCEPT !.pc = next, !.xfers = @ \o m.imgs]
    /\ UNCHANGED <<op, pc, result, fr, out, arg>>

\* stage RS and RW, write most significant nibble
WriteByteHigh ==
    /\ wb.pc = "hi"
    /\ \E os \in Oracles(1), wok \in BOOLEAN :
          WriteByteStep(writeReg([Mach EXCEPT !.dev.reg.RS = IF wb.rs # 0 THEN 1 ELSE 0,
                                              !.dev.reg.RW = 0,
                                              !.dev.reg.D4 = wb.val \div 16],
                                 os[1], wok),
                        "latch1")

WriteByteLatch1 ==
    /\ wb.pc = "latch1"
    /\ \E os \in Oracles(2), wok \in BOOLEAN :
          WriteByteStep(latch(Mach, os[1], os[2], wok), "lo")

\* the second transfer sends the most significant nibble again
WriteByteLow_high ==
    /\ wb.pc = "lo"
    /\ \E os \in Oracles(1), wok \in BOOLEAN :
          WriteByteStep(writeReg([Mach EXCEPT !.dev.reg.D4 = wb.val \div 16], os[1], wok),
                        "latch2")

\* write least significant nibble
WriteByteLow ==
    /\ wb.pc = "lo"
    /\ \E os \in Oracles(1), wok \in BOOLEAN :
          WriteByteStep(writeReg([Mach EXCEPT !.dev.reg.D4 = wb.val % 16], os[1], wok),
                        "latch2")

WriteByteLatch2 ==
    /\ wb.pc = "latch2"
    /\ \E os \in Oracles(2), wok \in BOOLEAN :
          WriteByteStep(latch(Mach, os[1], os[2], wok), "poll")

\* a loop that tests nothing: do { ... } while( true )
WriteBytePoll_spin ==
    /\ wb.pc = "poll"
    /\ \E os \in Oracles(1), s1 \in Samples, s2 \in Samples, wok \in BOOLEAN :
          LET m == GetStatus(Mach, os[1], s1, s2, wok) IN
          /\ Commit(m)
          /\ wb' = [wb EXCEPT !.result = m.ret, !.pc = "poll"]
    /\ UNCHANGED <<op, pc, result, fr, out, arg>>

\* a poll loop that ends as soon as GetStatus reports an error
WriteBytePoll_giveup ==
    /\ wb.pc = "poll"
    /\ \E os \in Oracles(1), s1 \in Samples, s2 \in Samples, wok \in BOOLEAN :
          LET m == GetStatus(Mach, os[1], s1, s2, wok) IN
          /\ Commit(m)
          /\ wb' = [wb EXCEPT !.result = m.ret,
                               !.pc = IF m.dev.busy /\ m.ret = EOK THEN "poll" ELSE "ret"]
    /\ UNCHANGED <<op, pc, result, fr, out, arg>>

\* one iteration of do { result = GetStatus( pDev ); } while( pDev->busy );
WriteBytePoll ==
    /\ wb.pc = "poll"
    /\ \E os \in Oracles(1), s1 \in Samples, s2 \in Samples, wok \in BOOLEAN :
          LET m == GetStatus(Mach, os[1], s1, s2, wok) IN
          /\ Commit(m)
          /\ wb' = [wb EXCEPT !.result = m.ret,
                               !.pc = IF m.dev.busy THEN "poll" ELSE "ret"]
    /\ UNCHANGED <<op, pc, result, fr, out, arg>>

WriteByteReturn ==
    /\ pc = "writeByte"
    /\ wb.pc = "ret"
    /\ result' = wb.result
    /\ pc' = "idle"
    /\ wb' = NoWrite
    /\ UNCHANGED <<pDev, files, sent, ev, op, fr, out, arg>>

(* ---- lcd_ctrl.c: LCDInit with Set4BitMode inlined at its call ---- *)
\* a multi-step function returns: LCDClose, then back to the caller
CloseAndReturn(r) ==
    /\ Commit(LCDClose(Mach))
    /\ result' = r
    /\ pc' = "idle"
    /\ wb' = NoWrite
    /\ fr' = NoFrame
    /\ UNCHANGED <<op, out, arg>>

CallLCDInit ==
    /\ pc = "idle"
    /\ \E os \in Oracles(1), wok \in BOOLEAN :
          LET m == LCDOpen(Mach, os[1], wok) IN
          IF m.ret = EOK
          THEN /\ Commit(m)
               /\ op' = "LCDInit"
               /\ pc' = "Set4BitMode_rc1"
               /\ wb' = StartWrite(0, 56)
               /\ fr' = Issue([NoFrame EXCEPT !.result = ENXIO], "writeByte", 0, 56)
               /\ out' = NoOut
               /\ arg' = NoArg
               /\ UNCHANGED result
          ELSE Return(m, "LCDInit")

\* Set4BitMode that goes from the 8-bit function set straight to 0x28
Set4BitMode_Nibble_skip ==
    /\ pc = "Set4BitMode_rc1"
    /\ wb.pc = "ret"
    /\ Commit(Mach)
    /\ fr' = Issue([fr EXCEPT !.rc1 = wb.result], "writeByte", 0, 40)
    /\ wb' = StartWrite(0, 40)
    /\ pc' = "Set4BitMode_rc2"
    /\ UNCHANGED <<op, result, out, arg>>

\* Set4BitMode after writeByte( pDev, 0, 0x38 ): the single raw nibble
Set4BitMode_Nibble ==
    /\ pc = "Set4BitMode_rc1"
    /\ wb.pc = "ret"
    /\ \E os \in Oracles(3), wok \in BOOLEAN :
          LET m0 == [Mach EXCEPT !.dev.reg.RS = 0, !.dev.reg.RW = 0, !.dev.reg.D4 = 2]
              m1 == writeReg(m0, os[1], wok)
              m2 == latch(m1, os[2], os[3], wok)
          IN Commit(m2)
    /\ fr' = Issue(Issue([fr EXCEPT !.rc1 = wb.result], "writeReg", 0, 2), "writeByte", 0, 40)
    /\ wb' = StartWrite(0, 40)
    /\ pc' = "Set4BitMode_rc2"
    /\ UNCHANGED <<op, result, out, arg>>

\* Set4BitMode returns into LCDInit
Set4BitMode_Return ==
    /\ pc = "Set4BitMode_rc2"
    /\ wb.pc = "ret"
    /\ LET r == IF fr.rc1 = EOK /\ wb.result = EOK THEN EOK ELSE ENXIO IN
       IF r = EOK
       THEN /\ fr' = Issue([fr EXCEPT !.result = r], "writeByte", 0, 1)
            /\ wb' = StartWrite(0, 1)
            /\ pc' = "ClearDisplay"
            /\ UNCHANGED <<pDev, files, sent, ev, op, result, out, arg>>
       ELSE CloseAndReturn(r)

LCDInit_CursorHome ==
    /\ pc = "ClearDisplay"
    /\ wb.pc = "ret"
    /\ wb' = StartWrite(0, 2)
    /\ fr' = Issue(fr, "writeByte", 0, 2)
    /\ pc' = "CursorHome"
    /\ UNCHANGED <<pDev, files, sent, ev, op, result, out, arg>>

LCDInit_Cursor ==
    /\ pc = "CursorHome"
    /\ wb.pc = "ret"
    /\ wb' = StartWrite(0, 15)
    /\ fr' = Issue(fr, "writeByte", 0, 15)
    /\ pc' = "Cursor"
    /\ UNCHANGED <<pDev, files, sent, ev, op, result, out, arg>>

\* LCDInit that reports a cursor-mode write whose transfers failed
LCDInit_Close_reporting ==
    /\ pc = "Cursor"
    /\ wb.pc = "ret"
    /\ CloseAndReturn(IF \E i \in 1..Len(ev) : ~ev[i].ok THEN ENXIO ELSE fr.result)

LCDInit_Close ==
    /\ pc = "Cursor"
    /\ wb.pc = "ret"
    /\ CloseAndReturn(fr.result)

(* ---- lcd_ctrl.c: DisplayLine ---- *)
\* a set-address that sends the location without the instruction bit
SetADDOpcode_plain(loc) == loc % 256

\* 0x80 | loc on a uint8_t
SetADDOpcode(loc) == IF (loc % 256) >= 128 THEN loc % 256 ELSE 128 + (loc % 256)

\* ch = line[i]; if ( ch == 0 ) ch = 0x20;   (i counts from 0)
LineChar(line, i) == IF line[i + 1] = 0 THEN 32 ELSE line[i + 1]

\* DisplayLine that opens the device before it looks at its arguments
DisplayLine_Enter_openfirst(lineIsNull) ==
    /\ pc = "idle"
    /\ \E in \in LineInputs, os \in Oracles(1), wok \in BOOLEAN :
       \E g \in Beyond(in[2]) :
          LET m == LCDOpen(Mach, os[1], wok) IN
          IF lineIsNull
          THEN Return(Ret(LCDClose(m), EINVAL), "DisplayLine")
          ELSE IF m.ret = EOK
          THEN /\ Commit(m)
               /\ op' = "DisplayLine"
               /\ pc' = "SetADD"
               /\ wb' = StartWrite(0, SetADDOpcode(in[1]))
               /\ fr' = Issue([NoFrame EXCEPT !.result = EOK, !.offset = in[1],
                                               !.line = Pad(in[2], g)],
                              "writeByte", 0, SetADDOpcode(in[1]))
               /\ out' = NoOut
               /\ arg' = NoArg
               /\ UNCHANGED result
          ELSE Return(m, "DisplayLine")

\* DisplayLine up to its first writeByte; lineIsNull is line == NULL
DisplayLine_Enter(lineIsNull) ==
    /\ pc = "idle"
    /\ IF lineIsNull
       THEN Return(Ret(Mach, EINVAL), "DisplayLine")
       ELSE
       \E in \in LineInputs, os \in Oracles(1), wok \in BOOLEAN :
       \E g \in Beyond(in[2]) :
          LET m == LCDOpen(Mach, os[1], wok) IN
          IF m.ret = EOK
          THEN /\ Commit(m)
               /\ op' = "DisplayLine"
               /\ pc' = "SetADD"
               /\ wb' = StartWrite(0, SetADDOpcode(in[1]))
               /\ fr' = Issue([NoFrame EXCEPT !.result = EOK, !.offset = in[1],
                                               !.line = Pad(in[2], g)],
                              "writeByte", 0, SetADDOpcode(in[1]))
               /\ out' = NoOut
               /\ arg' = NoArg
               /\ UNCHANGED result
          ELSE Return(m, "DisplayLine")

\* the calls lcd.c makes: the text is a buffer of the caller, never NULL
CallDisplayLine == DisplayLine_Enter(FALSE)

\* a call by any client of the driver, a null text included
CallDisplayLineAny == \E lineIsNull \in BOOLEAN : DisplayLine_Enter(lineIsNull)

DisplayLine_Loop ==
    /\ pc = "SetADD"
    /\ wb.pc = "ret"
    /\ IF wb.result = EOK
       THEN /\ fr' = Issue([fr EXCEPT !.result = wb.result, !.i = 0],
                              "writeByte", 1, LineChar(fr.line, 0))
            /\ wb' = StartWrite(1, LineChar(fr.line, 0))
            /\ pc' = "DisplayLine_char"
            /\ UNCHANGED <<pDev, files, sent, ev, op, result, out, arg>>
       ELSE CloseAndReturn(wb.result)

\* a loop that stops one position short: for( i = 0; i < 16; i++ )
DisplayLine_Next_sixteen ==
    /\ pc = "DisplayLine_char"
    /\ wb.pc = "ret"
    /\ LET r == IF wb.result # EOK THEN wb.result ELSE fr.result IN
       IF fr.i + 1 < 16
       THEN /\ fr' = Issue([fr EXCEPT !.result = r, !.i = fr.i + 1],
                              "writeByte", 1, LineChar(fr.line, fr.i + 1))
            /\ wb' = StartWrite(1, LineChar(fr.line, fr.i + 1))
            /\ UNCHANGED <<pDev, files, sent, ev, op, pc, result, out, arg>>
       ELSE CloseAndReturn(r)

DisplayLine_Next ==
    /\ pc = "DisplayLine_char"
    /\ wb.pc = "ret"
    /\ LET r == IF wb.result # EOK THEN wb.result ELSE fr.result IN
       IF fr.i + 1 < 17
       THEN /\ fr' = Issue([fr EXCEPT !.result = r, !.i = fr.i + 1],
                              "writeByte", 1, LineChar(fr.line, fr.i + 1))
            /\ wb' = StartWrite(1, LineChar(fr.line, fr.i + 1))
            /\ UNCHANGED <<pDev, files, sent, ev, op, pc, result, out, arg>>
       ELSE CloseAndReturn(r)

(* ---- the display service: the operations lcd.c calls on the driver ---- *)
Next ==
    \/ CallLCDOpen
    \/ CallLCDClose
    \/ CallSetExclusive
    \/ CallSetBacklight
    \/ CallGetStatus
    \/ WriteByteHigh
    \/ WriteByteLatch1
    \/ WriteByteLow
    \/ WriteByteLatch2
    \/ WriteBytePoll
    \/ CallLCDInit
    \/ Set4BitMode_Nibble
    \/ Set4BitMode_Return
    \/ LCDInit_CursorHome
    \/ LCDInit_Cursor
    \/ LCDInit_Close
    \/ CallDisplayLine
    \/ DisplayLine_Loop
    \/ DisplayLine_Next

Spec == Init /\ [][Next]_vars

(* ---- DisplayLine called with any argument, on any device path ---- *)
NextLine ==
    \/ CallLCDOpen
    \/ CallLCDClose
    \/ CallSetDeviceName
    \/ CallGetStatus
    \/ CallDisplayLineAny
    \/ WriteByteHigh
    \/ WriteByteLatch1
    \/ WriteByteLow
    \/ WriteByteLatch2
    \/ WriteBytePoll
    \/ DisplayLine_Loop
    \/ DisplayLine_Next

SpecLine == Init /\ [][NextLine]_vars

(* ---- the bus transport on its own: every lcd_io.c primitive ---- *)
NextIO ==
    \/ CallLCDOpen
    \/ CallLCDClose
    \/ CallSetExclusive
    \/ CallSetAddress
    \/ CallSetDeviceName
    \/ CallSetBacklight
    \/ CallGetStatus
    \/ CallWriteReg
    \/ CallLatch
    \/ CallReadByte
    \/ CallReadStatus

SpecIO == Init /\ [][NextIO]_vars

(* ---- the accessors, between the operations that use what they set ---- *)
NextAccess ==
    \/ CallLCDOpen
    \/ CallLCDClose
    \/ CallGetStatus
    \/ CallSetExclusive
    \/ CallGetExclusive
    \/ CallSetBacklight
    \/ CallUpdateBacklight
    \/ CallGetBacklight
    \/ CallSetAddress
    \/ CallGetAddress
    \/ CallSetDeviceName
    \/ CallGetDeviceName

SpecAccess == Init /\ [][NextAccess]_vars

(* ---- status reads over every status byte, and the cursor accessors ---- *)
NextStatus ==
    \/ CallLCDOpen
    \/ CallLCDClose
    \/ CallGetStatusAny
    \/ CallGetCursorX
    \/ CallGetCursorY

SpecStatus == Init /\ [][NextStatus]_vars

(* ---- writeByte called directly, open or closed, with any device path ---- *)
NextWrite ==
    \/ CallLCDOpen
    \/ CallLCDClose
    \/ CallSetExclusive
    \/ CallSetDeviceName
    \/ CallGetStatus
    \/ CallWriteByte
    \/ WriteByteHigh
    \/ WriteByteLatch1
    \/ WriteByteLow
    \/ WriteByteLatch2
    \/ WriteBytePoll
    \/ WriteByteReturn

SpecWrite == Init /\ [][NextWrite]_vars

(* ---- the display service with a running thread and finite busy periods ---- *)
\* the statements of writeByte, and the return into its caller
WriteBytePoints == {"hi", "latch1", "lo", "latch2", "poll", "ret"}

\* the poll just made read the status register and found the busy flag clear
ReportsReady == \E i \in 1..Len(ev) : ev[i].call = "read" /\ ~pDev.busy

\* Weak fairness of every step of a running call.  At each control point of
\* writeByte a step is always possible (the environment always answers a
\* system call), so ENABLED of the step is wb.pc = at; a step taken outside
\* the poll leaves its control point, so its weak fairness is
\* []<>(wb.pc # at).  The controller's part: no busy period lasts for ever,
\* so a thread in the poll loop gets a status read that reports busy clear.
Fairness ==
    /\ \A at \in WriteBytePoints \ {"poll"} : []<>(wb.pc # at)
    /\ []<>(wb.pc = "poll" => ReportsReady)

SpecLive == Init /\ [][Next]_vars /\ Fairness

(* ---- lcd_ctrl.c: the one-byte instructions, each a call of writeByte ---- *)
Offsets == 0..127

\* result = writeByte( pDev, 0, val ); the steps of writeByte follow
Instruction(name, val, a) ==
    /\ pc = "idle"
    /\ wb' = StartWrite(0, val)
    /\ fr' = Issue(NoFrame, "writeByte", 0, val)
    /\ op' = name
    /\ pc' = "writeByte"
    /\ ev' = <<>>
    /\ out' = NoOut
    /\ arg' = a
    /\ UNCHANGED <<pDev, files, sent, result>>

CallClearDisplay == Instruction("ClearDisplay", 1, NoArg)

CallCursorHome == Instruction("CursorHome", 2, NoArg)

CallSetADD == \E loc \in Offsets : Instruction("SetADD", SetADDOpcode(loc), IntValue(loc))

CallCursor == Instruction("Cursor", 15, NoArg)

\* the instructions are sent inside LCDInit and DisplayLine, which hold the
\* connection: the state after InitDev and a successful LCDOpen
InitOpen ==
    LET m == LCDOpen([dev |-> InitDev, files |-> [f \in FDs |-> ClosedFile], sent |-> -1,
                      ev |-> <<>>, imgs |-> <<>>, ret |-> 0, val |-> 0, data |-> 0,
                      errno |-> 0, out |-> NoOut], "ok", TRUE)
    IN /\ pDev = m.dev
       /\ files = m.files
       /\ sent = m.sent
       /\ ev = m.ev
       /\ op = "LCDOpen"
       /\ pc = "idle"
       /\ result = m.ret
       /\ wb = NoWrite
       /\ fr = NoFrame
       /\ out = NoOut
       /\ arg = NoArg

NextInstr ==
    \/ CallClearDisplay
    \/ CallCursorHome
    \/ CallSetADD
    \/ CallCursor
    \/ WriteByteHigh
    \/ WriteByteLatch1
    \/ WriteByteLow
    \/ WriteByteLatch2
    \/ WriteBytePoll
    \/ WriteByteReturn

SpecInstr == InitOpen /\ [][NextInstr]_vars

(* ---- lcd.c: main, the run loop and the termination handler ---- *)
\* state.hVarServer is NULL until VARSERVER_Open has returned a handle
hVarServer == pc \notin {"main_options", "main_varserver", "exited"}

InitMain ==
    /\ pDev = InitDev
    /\ files = [f \in FDs |-> ClosedFile]
    /\ sent = -1
    /\ ev = <<>>
    /\ op = "main"
    /\ pc = "main_options"
    /\ result = EOK
    /\ wb = NoWrite
    /\ fr = NoFrame
    /\ out = NoOut
    /\ arg = NoArg

\* -e asks for exclusive mode
ProcessOptions ==
    /\ pc = "main_options"
    /\ \E e \in BOOLEAN :
          Commit(IF e THEN SetExclusive(Mach, TRUE) ELSE Mach)
    /\ pc' = "main_varserver"
    /\ UNCHANGED <<op, result, wb, fr, out, arg>>

\* without a variable server main returns at once
Main_VarServerOpen ==
    /\ pc = "main_varserver"
    /\ \E ok \in BOOLEAN :
          pc' = IF ~ok THEN "exited"
                ELSE IF GetExclusive(Mach).out = BoolValue(TRUE) THEN "main_open"
                ELSE "main_notify"
    /\ ev' = <<>>
    /\ UNCHANGED <<pDev, files, sent, op, result, wb, fr, out, arg>>

\* main's LCDOpen, a step per system call: fd is -1 and the device path is
\* set when main gets here
Main_LCDOpen_open ==
    /\ pc = "main_open"
    /\ \E o \in {"ok"} \cup OpenFails :
          LET m == c_open([Mach EXCEPT !.ev = <<>>], o) IN
          /\ Commit(m)
          /\ IF m.ret # -1
             THEN /\ fr' = [NoFrame EXCEPT !.fd = m.ret]
                  /\ pc' = "LCDOpen_ioctl"
                  /\ UNCHANGED result
             ELSE /\ fr' = NoFrame
                  /\ result' = m.errno
                  /\ pc' = "exited"
    /\ op' = "LCDOpen"
    /\ UNCHANGED <<wb, out, arg>>

Main_LCDOpen_ioctl ==
    /\ pc = "LCDOpen_ioctl"
    /\ \E o \in {"ok", "eioctl"} :
          LET m == c_ioctl(Mach, fr.fd, o) IN
          /\ Commit(m)
          /\ pc' = IF m.ret >= 0 THEN "LCDOpen_write" ELSE "LCDOpen_close"
    /\ UNCHANGED <<op, result, wb, fr, out, arg>>

Main_LCDOpen_write ==
    /\ pc = "LCDOpen_write"
    /\ \E wok \in BOOLEAN : Commit(c_write(Mach, fr.fd, wok))
    /\ pc' = "LCDOpen_save"
    /\ UNCHANGED <<op, result, wb, fr, out, arg>>

Main_LCDOpen_save ==
    /\ pc = "LCDOpen_save"
    /\ pDev' = [pDev EXCEPT !.fd = fr.fd]
    /\ result' = EOK
    /\ fr' = NoFrame
    /\ ev' = <<>>
    /\ pc' = "main_notify"
    /\ UNCHANGED <<files, sent, op, wb, out, arg>>

\* the ioctl failed: close( fd ), ENXIO, and main returns
Main_LCDOpen_close ==
    /\ pc = "LCDOpen_close"
    /\ Commit(c_close(Mach, fr.fd))
    /\ result' = ENXIO
    /\ fr' = NoFrame
    /\ pc' = "exited"
    /\ UNCHANGED <<op, wb, out, arg>>

Main_SetupNotifications ==
    /\ pc = "main_notify"
    /\ \E ok \in BOOLEAN :
          /\ pc' = IF ok THEN "idle" ELSE "main_close"
          /\ result' = IF ok THEN EOK ELSE EINVAL
    /\ op' = "SetupNotifications"
    /\ ev' = <<>>
    /\ UNCHANGED <<pDev, files, sent, wb, fr, out, arg>>

Main_LCDInit ==
    /\ op = "SetupNotifications"
    /\ CallLCDInit

\* the run loop is entered once LCDInit has returned EOK
Running ==
    /\ pc = "idle"
    /\ op \in {"LCDInit", "DisplayLine", "UpdateBacklight"}
    /\ (op = "LCDInit" => result = EOK)

Main_UpdateLine ==
    /\ Running
    /\ CallDisplayLine

Main_UpdateBacklight ==
    /\ Running
    /\ CallUpdateBacklight

\* main's way out: SetExclusive( false ), LCDClose, VARSERVER_Close
Main_Shutdown ==
    /\ \/ pc = "main_close"
       \/ pc = "idle" /\ op = "LCDInit" /\ result # EOK
    /\ Commit(LCDClose(SetExclusive([Mach EXCEPT !.ev = <<>>], FALSE)))
    /\ op' = "main"
    /\ pc' = "exited"
    /\ wb' = NoWrite
    /\ fr' = NoFrame
    /\ UNCHANGED <<result, out, arg>>

(* ---- lcd.c: HandleSignal and OnChange ---- *)
\* the notifications WaitSignal can return, and one that is neither of them
Signals == {"SIG_VAR_MODIFIED", "SIG_VAR_PRINT", "SIG_VAR_CALC"}
\* variable handles: the three the service registered, and another one
hVarBacklight == 1
hVarLine1 == 2
hVarLine2 == 3
Handles == 1..4

\* the (signum, id) pair a HandleSignal call was given
SignalValue(signum, id) == [NoValue EXCEPT !.kind = "signal", !.s = signum, !.n = id]

\* OnChange up to the call of the update function
OnChange(m, hVar) ==
    IF hVar = hVarBacklight THEN Ret(m, EINVAL)
    ELSE IF hVar = hVarLine1 THEN Ret(m, EINVAL)
    ELSE IF hVar = hVarLine2 THEN Ret(m, EINVAL)
    ELSE Ret(m, ENOENT)

\* HandleSignal tests its local variable sig, which is never assigned: the
\* value it holds is whatever the stack held
CallHandleSignal ==
    /\ pc = "idle"
    /\ \E signum \in Signals, id \in Handles, sig \in Signals :
          LET a == SignalValue(signum, id) IN
          IF sig = "SIG_VAR_MODIFIED"
          THEN IF id = hVarBacklight
               THEN \E got \in BOOLEAN, ui \in UiValues, os \in Oracles(1), wok \in BOOLEAN :
                       ReturnOf(UpdateBacklight(Mach, got, ui, os[1], wok),
                                "UpdateBacklight", a)
               ELSE ReturnOf(OnChange(Mach, id),
                             IF id = hVarLine1 THEN "UpdateLine1"
                             ELSE IF id = hVarLine2 THEN "UpdateLine2" ELSE "OnChange", a)
          ELSE IF sig = "SIG_VAR_PRINT"
               THEN ReturnOf(Ret(Mach, EOK), "PrintStatus", a)
               ELSE ReturnOf(Ret(Mach, ENOTSUP), "HandleSignal", a)

\* UpdateLine1 and UpdateLine2 once VAR_Get has returned the text:
\* DisplayLine at offset 0x00 or 0x40
UpdateLine_DisplayLine ==
    /\ op \in {"UpdateLine1", "UpdateLine2"}
    /\ CallDisplayLine
    /\ (pc' # "idle" => fr'.offset = (IF op = "UpdateLine1" THEN 0 ELSE 64))

NextSignal ==
    \/ CallHandleSignal
    \/ UpdateLine_DisplayLine
    \/ WriteByteHigh
    \/ WriteByteLatch1
    \/ WriteByteLow
    \/ WriteByteLatch2
    \/ WriteBytePoll
    \/ DisplayLine_Loop
    \/ DisplayLine_Next

SpecSignal == Init /\ [][NextSignal]_vars

\* SIGTERM or SIGINT, delivered between any two steps of the program; the
\* handler ends in exit( 1 ), which discards the interrupted call
TerminationHandler ==
    /\ pc # "exited"
    /\ IF hVarServer
       THEN Commit(LCDClose(SetExclusive([Mach EXCEPT !.ev = <<>>], FALSE)))
       ELSE ev' = <<>> /\ UNCHANGED <<pDev, files, sent>>
    /\ op' = "TerminationHandler"
    /\ pc' = "exited"
    /\ result' = EOK
    /\ wb' = NoWrite
    /\ fr' = NoFrame
    /\ UNCHANGED <<out, arg>>

NextMain ==
    \/ ProcessOptions
    \/ Main_VarServerOpen
    \/ Main_LCDOpen_open
    \/ Main_LCDOpen_ioctl
    \/ Main_LCDOpen_write
    \/ Main_LCDOpen_save
    \/ Main_LCDOpen_close
    \/ Main_SetupNotifications
    \/ Main_LCDInit
    \/ WriteByteHigh
    \/ WriteByteLatch1
    \/ WriteByteLow
    \/ WriteByteLatch2
    \/ WriteBytePoll
    \/ Set4BitMode_Nibble
    \/ Set4BitMode_Return
    \/ LCDInit_CursorHome
    \/ LCDInit_Cursor
    \/ LCDInit_Close
    \/ Main_UpdateLine
    \/ DisplayLine_Loop
    \/ DisplayLine_Next
    \/ Main_UpdateBacklight
    \/ Main_Shutdown
    \/ TerminationHandler

SpecMain == InitMain /\ [][NextMain]_vars

TypeOK ==
    /\ pDev.fd \in FDs \cup {-1}
    /\ pDev.reg.D4 \in 0..15
    /\ pc \in {"idle", "writeByte", "Set4BitMode_rc1", "Set4BitMode_rc2", "ClearDisplay",
               "CursorHome", "Cursor", "SetADD", "DisplayLine_char"}

(* ---- the claims ---- *)
AllClosed == \A f \in FDs : ~files[f].open

Events(log, c) == SelectSeq(log, LAMBDA e : e.call = c)
Failed(log) == SelectSeq(log, LAMBDA e : ~e.ok)
WriteVals(log) == [i \in 1..Len(Events(log, "write")) |-> Events(log, "write")[i].val]

\* C1: in shared mode (exclusive flag false) with the connection Closed at
\* the call, every return of LCDInit, DisplayLine, SetBacklight or GetStatus,
\* on success and error paths alike, leaves the connection Closed and no
\* descriptor open.
C1_SharedModeReturnsClosed ==
    [][ ( /\ pc' = "idle"
          /\ op' \in {"LCDInit", "DisplayLine", "SetBacklight", "GetStatus"}
          /\ ~pDev'.exclusive
          /\ (pc = "idle" => pDev.fd = -1) )
        => (pDev'.fd = -1 /\ AllClosed') ]_vars

C1_Witness ==
    /\ op = "DisplayLine" /\ pc = "idle" /\ result = EOK
    /\ ~pDev.exclusive /\ pDev.fd = -1 /\ AllClosed
    /\ Len(Events(ev, "close")) = 1

\* C2: LCDClose returns EOK always; with the exclusive flag set it changes
\* nothing (connection stays open, same handle, no system call); called right
\* after SetExclusive(false) it releases the connection (fd = -1).
C2_CloseRespectsExclusive ==
    [][ (pc = "idle" /\ pc' = "idle" /\ op' = "LCDClose")
        => /\ result' = EOK
           /\ (pDev.exclusive => (pDev' = pDev /\ files' = files /\ ev' = <<>>))
           /\ ((op = "SetExclusive" /\ ~pDev.exclusive) => (pDev'.fd = -1 /\ AllClosed')) ]_vars

C2_Witness ==
    /\ op = "LCDClose" /\ pc = "idle" /\ result = EOK
    /\ pDev.exclusive /\ pDev.fd # -1 /\ files[pDev.fd].open /\ ev = <<>>

\* C3: while the connection is open and the exclusive flag is set, no step
\* of any operation closes, reopens or replaces the handle.
C3_ExclusivePersists ==
    [][ (pDev.fd # -1 /\ pDev.exclusive)
        => /\ pDev'.fd = pDev.fd
           /\ files' = files
           /\ files[pDev.fd].open
           /\ Events(ev', "open") = <<>>
           /\ Events(ev', "close") = <<>> ]_vars

C3_Witness ==
    /\ op = "DisplayLine" /\ pc = "idle" /\ result = EOK
    /\ pDev.exclusive /\ pDev.fd # -1 /\ files[pDev.fd].open

\* C4: LCDOpen with the connection already held returns EOK and does
\* nothing: context, descriptor table and last byte sent are unchanged and no
\* system call is made.
C4_OpenWhenHeldIsNoOp ==
    [][ (pc = "idle" /\ pc' = "idle" /\ op' = "LCDOpen" /\ pDev.fd # -1)
        => (result' = EOK /\ pDev' = pDev /\ files' = files /\ sent' = sent /\ ev' = <<>>) ]_vars

C4_Witness ==
    /\ op = "LCDOpen" /\ pc = "idle" /\ result = EOK
    /\ pDev.fd # -1 /\ ev = <<>>

\* C5: LCDOpen from Closed returns ENODEV with no device path, ENXIO
\* when the address cannot be configured, and the errno of open() when the
\* open fails; it returns EOK only when both succeeded, and every failure
\* leaves fd = -1 with no descriptor open.
C5_OpenFailures ==
    [][ (pc = "idle" /\ pc' = "idle" /\ op' = "LCDOpen" /\ pDev.fd = -1)
        => LET opens == Events(ev', "open")
               ioctls == Events(ev', "ioctl")
           IN /\ (pDev.device = NULL => (result' = ENODEV /\ ev' = <<>>))
              /\ (pDev.device # NULL => Len(opens) = 1)
              /\ ((opens # <<>> /\ ~opens[1].ok) => result' = opens[1].val)
              /\ ((ioctls # <<>> /\ ~ioctls[1].ok) => result' = ENXIO)
              /\ (result' = EOK <=> (opens # <<>> /\ opens[1].ok /\ ioctls # <<>> /\ ioctls[1].ok))
              /\ (result' # EOK => (pDev'.fd = -1 /\ AllClosed')) ]_vars

C5_Witness ==
    /\ op = "LCDOpen" /\ pc = "idle" /\ result = ENXIO
    /\ pDev.fd = -1 /\ AllClosed
    /\ Len(Events(ev, "close")) = 1

Calls(log) == [i \in 1..Len(log) |-> log[i].call]

\* C6 as stated: every writeReg call makes exactly one transfer, of the
\* current register image, and leaves the stored handle as it was.
C6_ExactlyOneTransfer ==
    [][ (pc = "idle" /\ pc' = "idle" /\ op' = "writeReg")
        => /\ WriteVals(ev') = <<RegVal(pDev.reg)>>
           /\ pDev'.fd = pDev.fd ]_vars

\* C6 amended: writeReg changes nothing in the context and transfers the
\* current image at most once.  With a connection held it is one plain write
\* (no open/close, EOK).  With none held it is open, ioctl, write, close when
\* the open and the address configuration succeed, and no transfer at all
\* (error returned) otherwise; no descriptor is left open either way.
C6_WriteRegTransfer ==
    [][ (pc = "idle" /\ pc' = "idle" /\ op' = "writeReg")
        => /\ pDev' = pDev
           /\ files' = files
           /\ \A i \in 1..Len(WriteVals(ev')) : WriteVals(ev')[i] = RegVal(pDev.reg)
           /\ (pDev.fd # -1 =>
                 (Calls(ev') = <<"write">> /\ ev'[1].fd = pDev.fd /\ result' = EOK))
           /\ (pDev.fd = -1 =>
                 /\ AllClosed'
                 /\ (result' = EOK <=> Calls(ev') = <<"open", "ioctl", "write", "close">>)
                 /\ (result' # EOK => WriteVals(ev') = <<>>)) ]_vars

C6_Witness ==
    /\ op = "writeReg" /\ pc = "idle" /\ result = EOK
    /\ pDev.fd = -1 /\ AllClosed
    /\ Calls(ev) = <<"open", "ioctl", "write", "close">>
    /\ sent = RegVal(pDev.reg)

(* the register images one writeByte( rs, val ) hands to writeReg, in order *)
Img(rs, d4, en) == (IF rs # 0 THEN 1 ELSE 0) + 4 * en + 8 * pDev.reg.LED + 16 * d4

WriteByteImages(rs, val) ==
    << Img(rs, val \div 16, 0), Img(rs, val \div 16, 1), Img(rs, val \div 16, 0),
       Img(rs, val % 16, 0), Img(rs, val % 16, 1), Img(rs, val % 16, 0) >>

\* how many of them precede each statement of writeByte
Before(at) ==
    CASE at = "hi" -> 0
      [] at = "latch1" -> 1
      [] at = "lo" -> 3
      [] at = "latch2" -> 4
      [] OTHER -> 6

\* the transfers of the step that led to statement at
StepImages(rs, val, at) ==
    CASE at = "latch1" -> SubSeq(WriteByteImages(rs, val), 1, 1)
      [] at = "lo" -> SubSeq(WriteByteImages(rs, val), 2, 3)
      [] at = "latch2" -> SubSeq(WriteByteImages(rs, val), 4, 4)
      [] OTHER -> SubSeq(WriteByteImages(rs, val), 5, 6)

\* every transient open and address configuration of the step succeeded
BusReached(log) ==
    \/ pDev.fd # -1
    \/ /\ pDev.device # NULL
       /\ \A i \in 1..Len(log) : log[i].call \in {"open", "ioctl"} => log[i].ok

\* C7: for every rs and value, writeByte hands writeReg, in this order,
\* the high nibble with RS = rs and RW = 0, the same image with EN raised then
\* lowered (first latch), the low nibble, and that image with EN raised then
\* lowered (second latch): exactly two latch cycles, high before low.  The
\* images reach the bus in that order, and nothing is read from the bus until
\* the second latch has completed.
C7_WriteByteOrder ==
    wb.pc # "none" =>
        /\ wb.xfers = SubSeq(WriteByteImages(wb.rs, wb.val), 1, Before(wb.pc))
        /\ (wb.pc \in {"hi", "latch1", "lo", "latch2"} => Events(ev, "read") = <<>>)
        /\ (wb.pc \in {"latch1", "lo", "latch2"} =>
              /\ Len(WriteVals(ev)) <= Len(StepImages(wb.rs, wb.val, wb.pc))
              /\ \A i \in 1..Len(WriteVals(ev)) :
                    WriteVals(ev)[i] \in {StepImages(wb.rs, wb.val, wb.pc)[j] :
                                            j \in i..Len(StepImages(wb.rs, wb.val, wb.pc))}
              /\ (BusReached(ev) => WriteVals(ev) = StepImages(wb.rs, wb.val, wb.pc)))

C7_Witness ==
    /\ wb.pc = "poll" /\ wb.rs = 2 /\ wb.val = 165
    /\ wb.xfers = <<169, 173, 169, 89, 93, 89>>
    /\ WriteVals(ev) = <<93, 89>>

\* the first read of a status poll carries the busy flag in bit 7
BusySample(log) ==
    LET r == Events(log, "read") IN r # <<>> /\ r[1].ok /\ r[1].val >= 128

ReadySample(log) ==
    LET r == Events(log, "read") IN r # <<>> /\ r[1].ok /\ r[1].val < 128

\* C8: writeByte returns only after a status read of that call sampled
\* the controller and found busy = false.
C8_ReturnsOnlyWhenSampledReady ==
    wb.pc = "ret" => ReadySample(ev)

\* C9: writeByte returns the result of its final status read, and a
\* failed open, address configuration, bus read or bus write during that poll
\* makes the result an error.
C9_PollFailurePropagates ==
    wb.pc = "ret" => (Failed(ev) # <<>> => wb.result # EOK)

\* bus transfers fail: every read and write of the poll was refused
BusDown(log) ==
    /\ Events(log, "read") # <<>>
    /\ \A i \in 1..Len(log) : log[i].call \in {"read", "write"} => ~log[i].ok

\* C10: the poll loop of writeByte has no timeout and no iteration cap: a
\* poll against a non-responsive controller (busy sampled) or a disconnected
\* one (its transfers fail) is always followed by another poll, so writeByte,
\* and with it DisplayLine and LCDInit, never returns.
C10_HangsWhenUnresponsiveOrDisconnected ==
    [][ (wb.pc = "poll" /\ (BusySample(ev') \/ BusDown(ev')))
        => wb'.pc = "poll" ]_vars

DataWrites(f) == SelectSeq(f.calls, LAMBDA c : c.fn = "writeByte" /\ c.rs = 1)

\* a step that returns from DisplayLine to its caller
DisplayLineReturns == op' = "DisplayLine" /\ pc' = "idle" /\ (pc # "idle" \/ op # "DisplayLine" \/ ev' # ev \/ result' # result)

\* the data writes of the DisplayLine call that returns in this step
IssuedData == IF pc = "idle" THEN <<>> ELSE DataWrites(fr)

\* C12 as stated: every DisplayLine call with a non-null text has issued
\* exactly 17 writeByte calls with rs = 1 when it returns.
C12_AlwaysSeventeenWrites ==
    [][ DisplayLineReturns => Len(IssuedData) = 17 ]_vars

\* C12 amended: every DisplayLine call with a non-null text whose LCDOpen
\* succeeds issues exactly 17 writeByte calls with rs = 1, one per index
\* 0..16, whatever the text length and whether or not transfers of earlier
\* writes failed, and returns after the 17th has returned; a call whose
\* LCDOpen fails issues none and returns the error of LCDOpen.
C12_SeventeenWritesOnceOpen ==
    /\ [][ DisplayLineReturns =>
              \/ /\ pc = "DisplayLine_char" /\ wb.pc = "ret" /\ fr.i = 16
                 /\ Len(IssuedData) = 17
              \/ /\ pc = "idle" /\ result' # EOK /\ pDev.fd = -1 /\ pDev'.fd = -1 ]_vars
    /\ [](pc = "DisplayLine_char" => Len(DataWrites(fr)) = fr.i + 1)
    /\ [](pc = "SetADD" => DataWrites(fr) = <<>>)

C12_Witness ==
    /\ op = "DisplayLine" /\ pc = "DisplayLine_char" /\ wb.pc = "ret"
    /\ Len(DataWrites(fr)) = 17 /\ fr.line = Pad(Sixteen, 0)
    /\ Failed(ev) # <<>>

\* the text in a caller's buffer ends at its first null byte
HasNul(line) == \E i \in 1..17 : line[i] = 0
FirstNul(line) == Min({i \in 1..17 : line[i] = 0})

\* what the display should receive: the text, then spaces up to 17 bytes
Expected(line) == [j \in 1..17 |-> IF j < FirstNul(line) THEN line[j] ELSE 32]

\* C13: for a text of length n <= 16 given to DisplayLine at offset o, the
\* call issues one set-address instruction 0x80 | o and then, as data bytes,
\* text[0..n-1] in order followed by spaces (0x20) up to 17 bytes, each write
\* returning with the busy flag clear.
C13_TextThenSpaces ==
    (op = "DisplayLine" /\ pc \in {"SetADD", "DisplayLine_char"} /\ HasNul(fr.line)) =>
        /\ fr.calls[1] = [fn |-> "writeByte", rs |-> 0, val |-> 128 + fr.offset]
        /\ Len(fr.calls) = 1 + Len(DataWrites(fr))
        /\ \A k \in 1..Len(DataWrites(fr)) : DataWrites(fr)[k].val = Expected(fr.line)[k]
        /\ (wb.pc = "ret" => ~pDev.busy)

\* C14: when the buffer given to DisplayLine has a null byte at index
\* k < 17, every position from k to 16 is written as a space, whatever bytes
\* follow the null.
C14_NothingShownAfterNul ==
    (op = "DisplayLine" /\ pc = "DisplayLine_char" /\ HasNul(fr.line)) =>
        \A k \in FirstNul(fr.line)..Len(DataWrites(fr)) : DataWrites(fr)[k].val = 32

\* C15: a data-byte write of DisplayLine whose transfers fail does not
\* stop the loop, and DisplayLine then returns an error: the value it returns
\* after a 17th write whose status poll failed on the bus is not success.
C15_FailedWriteIsReported ==
    /\ [][ (pc = "DisplayLine_char" /\ wb.pc = "ret" /\ fr.i < 16 /\ fr' # fr)
            => (pc' = "DisplayLine_char" /\ fr'.i = fr.i + 1 /\ wb'.pc = "hi") ]_vars
    /\ [][ (pc = "DisplayLine_char" /\ wb.pc = "ret" /\ fr.i = 16 /\ Failed(ev) # <<>>
             /\ pc' = "idle")
            => result' # EOK ]_vars

\* the byte writes of a complete LCDInit
InitCalls ==
    << [fn |-> "writeByte", rs |-> 0, val |-> 56],
       [fn |-> "writeReg", rs |-> 0, val |-> 2],
       [fn |-> "writeByte", rs |-> 0, val |-> 40],
       [fn |-> "writeByte", rs |-> 0, val |-> 1],
       [fn |-> "writeByte", rs |-> 0, val |-> 2],
       [fn |-> "writeByte", rs |-> 0, val |-> 15] >>

\* how many of them have been issued at each point of LCDInit
IssuedAt(at) ==
    CASE at = "Set4BitMode_rc1" -> 1
      [] at = "Set4BitMode_rc2" -> 3
      [] at = "ClearDisplay" -> 4
      [] at = "CursorHome" -> 5
      [] OTHER -> 6

\* C16: a successful LCDInit opens the connection first (nothing to do
\* when it is already held), then issues 0x38 by writeByte, the raw nibble 0x2
\* with RS = 0 and RW = 0 and one latch, 0x28, 0x01, 0x02 and 0x0F, each after
\* the previous write has returned and with the connection held, and closes
\* the connection last, which changes nothing in exclusive mode.
C16_InitOrder ==
    /\ []((op = "LCDInit" /\ pc # "idle") =>
            /\ fr.calls = SubSeq(InitCalls, 1, IssuedAt(pc))
            /\ pDev.fd # -1 /\ files[pDev.fd].open)
    /\ [][ (pc = "idle" /\ pc' = "Set4BitMode_rc1") =>
              IF pDev.fd = -1
              THEN Calls(ev') = <<"open", "ioctl", "write">> /\ pDev'.fd = ev'[1].fd
              ELSE ev' = <<>> /\ pDev'.fd = pDev.fd ]_vars
    /\ [][ (op = "LCDInit" /\ pc # "idle" /\ fr'.calls # fr.calls) => wb.pc = "ret" ]_vars
    /\ [][ (pc = "Set4BitMode_rc1" /\ pc' = "Set4BitMode_rc2") =>
              /\ Calls(ev') = <<"write", "write", "write">>
              /\ WriteVals(ev') = <<32 + 8 * pDev.reg.LED, 36 + 8 * pDev.reg.LED,
                                      32 + 8 * pDev.reg.LED>> ]_vars
    /\ [][ (op = "LCDInit" /\ pc # "idle" /\ pc' = "idle" /\ result' = EOK) =>
              /\ pc = "Cursor" /\ wb.pc = "ret"
              /\ IF pDev.exclusive
                 THEN ev' = <<>> /\ pDev'.fd = pDev.fd /\ files' = files
                 ELSE Calls(ev') = <<"close">> /\ ev'[1].fd = pDev.fd
                      /\ pDev'.fd = -1 /\ AllClosed' ]_vars

C16_Witness ==
    /\ op = "LCDInit" /\ pc = "idle" /\ result = EOK
    /\ ~pDev.exclusive /\ pDev.fd = -1 /\ AllClosed /\ Calls(ev) = <<"close">>
    /\ sent = 2 + 8 * pDev.reg.LED + 16 * 15

\* C17: when the transfers of the 8-bit function set or of the 4-bit
\* function set fail during LCDInit, the failure is recorded, LCDInit goes on
\* to the clear-display, cursor-home and cursor-mode writes all the same, and
\* it returns failure after closing the connection.
C17_FailedFunctionSetReported ==
    /\ [][ (op = "LCDInit" /\ pc = "Set4BitMode_rc1" /\ wb.pc = "ret"
             /\ Failed(ev) # <<>> /\ pc' # pc)
            => fr'.rc1 # EOK ]_vars
    /\ [][ (op = "LCDInit" /\ pc = "Set4BitMode_rc2" /\ wb.pc = "ret"
             /\ (Failed(ev) # <<>> \/ fr.rc1 # EOK) /\ pc' # pc)
            => (pc' = "ClearDisplay" /\ fr'.result # EOK) ]_vars
    /\ [][ (op = "LCDInit" /\ pc = "Cursor" /\ pc' = "idle") => result' = fr.result ]_vars

\* the status byte a status read assembled from its two bus reads: the high
\* nibble of each; a read that fails leaves the byte read before it (0 at first)
StatusByte(log) ==
    LET r == Events(log, "read")
        hi == IF r[1].ok THEN r[1].val \div 16 ELSE 0
        lo == IF r[2].ok THEN r[2].val \div 16 ELSE hi
    IN 16 * hi + lo

StatusOf(d) == <<d.busy, d.AddressCounter, d.cx, d.cy>>

\* C18: a status read that returns success leaves, for its status byte s
\* (every value 0..255), busy = bit 7 of s, address counter a = s mod 128,
\* row 2 if a >= 0x40 else row 1, and column (a mod 0x40) + 1; no other step
\* changes these, and GetCursorX and GetCursorY return the column and row of
\* the last such read.
C18_StatusDecoding ==
    /\ [][ (op' = "GetStatus" /\ ev' # ev) =>
              IF result' = EOK
              THEN LET s == StatusByte(ev')
                       a == s % 128
                   IN /\ pDev'.busy = (s >= 128)
                      /\ pDev'.AddressCounter = a
                      /\ pDev'.cy = IF a >= 64 THEN 2 ELSE 1
                      /\ pDev'.cx = (a % 64) + 1
              ELSE Events(ev', "read") = <<>> /\ StatusOf(pDev') = StatusOf(pDev) ]_vars
    /\ [][ op' # "GetStatus" => StatusOf(pDev') = StatusOf(pDev) ]_vars
    /\ [][ op' = "GetCursorX" => (result' = EOK /\ out' = IntValue(pDev.cx) /\ pDev' = pDev) ]_vars
    /\ [][ op' = "GetCursorY" => (result' = EOK /\ out' = IntValue(pDev.cy) /\ pDev' = pDev) ]_vars

C18_Witness ==
    /\ op = "GetCursorY" /\ pc = "idle" /\ result = EOK /\ out = IntValue(2)
    /\ pDev.busy /\ pDev.AddressCounter = 81 /\ pDev.cx = 18 /\ pDev.cy = 2

\* C19: in every reachable state the cursor column is in 1..16 and the
\* cursor row is in 1..2, and GetCursorX and GetCursorY report such values.
C19_CursorInRange ==
    /\ pDev.cx \in 1..16
    /\ pDev.cy \in 1..2
    /\ (op = "GetCursorX" => out.n \in 1..16)
    /\ (op = "GetCursorY" => out.n \in 1..2)

C21_SetBacklightSucceeds ==
    /\ ((op = "SetBacklight" /\ pc = "idle") => result = EOK)
    /\ ((op = "UpdateBacklight" /\ pc = "idle" /\ arg # NoArg) => result = EOK)

\* C22: SetAddress and SetDeviceName make no system call and leave the
\* descriptor table and the held descriptor alone; while a connection is held
\* every system call of an operation goes to the held descriptor, none is an
\* open or an ioctl, and the path and slave address the descriptor was set up
\* with stay as they were; the open that follows a close is made on the path
\* and bound to the address the context holds at that time.
C22_ChangesApplyAtNextOpen ==
    /\ [][ (op' \in {"SetAddress", "SetDeviceName"} /\ pc' = "idle") =>
             (files' = files /\ pDev'.fd = pDev.fd /\ sent' = sent /\ ev' = <<>>) ]_vars
    /\ [][ pDev.fd # -1 =>
             /\ \A i \in 1..Len(ev') :
                   ev'[i].fd = pDev.fd /\ ev'[i].call \notin {"open", "ioctl"}
             /\ (pDev'.fd # -1 =>
                   (pDev'.fd = pDev.fd /\ files'[pDev.fd] = files[pDev.fd])) ]_vars
    /\ [][ (pDev.fd = -1 /\ pDev'.fd # -1) =>
             /\ files'[pDev'.fd].open
             /\ files'[pDev'.fd].path = pDev.device
             /\ files'[pDev'.fd].addr = pDev.address ]_vars

\* a register write that went out on a connection opened on the default path
\* and address after both were changed
C22_Witness ==
    /\ op = "writeReg" /\ pc = "idle" /\ result = EOK
    /\ pDev.fd # -1 /\ pDev.device = AltDevice /\ pDev.address = AltAddress
    /\ files[pDev.fd] = [open |-> TRUE, path |-> DefaultDevice, addr |-> DefaultAddress,
                          excl |-> files[pDev.fd].excl]
    /\ Len(ev) = 1 /\ ev[1].call = "write" /\ ev[1].fd = pDev.fd

\* a status read returned in this step, entered with no connection held
StatusReadWhenClosed(names) ==
    pDev.fd = -1 /\ pc = "idle" /\ pc' = "idle" /\ op' \in names /\ vars' # vars

\* C23 as stated: a status read (GetStatus, readStatus, readByte) attempted
\* with no connection held fails and makes no open() call.
C23_StatusReadNeverOpens ==
    [][ StatusReadWhenClosed({"GetStatus", "readStatus", "readByte"}) =>
          (result' # EOK /\ Events(ev', "open") = <<>>) ]_vars

\* C23 as the code has it: readStatus and readByte with no connection held
\* return EBADF and make no system call; GetStatus with no connection held
\* and a device path opens the device for this one read, binds the slave
\* address, reads the status, closes the descriptor again and leaves fd = -1;
\* it returns ENODEV without a path, the errno of a failed open, ENXIO for a
\* failed ioctl and otherwise the result of the status read.
C23_OnlyGetStatusOpens ==
    /\ [][ StatusReadWhenClosed({"readStatus", "readByte"}) =>
             (result' = EBADF /\ ev' = <<>> /\ files' = files /\ pDev' = pDev) ]_vars
    /\ [][ StatusReadWhenClosed({"GetStatus"}) =>
             /\ pDev'.fd = -1 /\ files' = files
             /\ IF pDev.device = NULL
                THEN result' = ENODEV /\ ev' = <<>>
                ELSE /\ ev' # <<>> /\ ev'[1].call = "open"
                     /\ Len(Events(ev', "open")) = 1
                     /\ IF ~ev'[1].ok
                        THEN result' = ev'[1].val /\ Len(ev') = 1
                        ELSE /\ ev'[2].call = "ioctl" /\ ev'[2].val = pDev.address
                             /\ ev'[Len(ev')].call = "close"
                             /\ ev'[Len(ev')].fd = ev'[1].fd
                             /\ IF ev'[2].ok
                                THEN result' = EOK /\ Len(Events(ev', "read")) = 2
                                ELSE result' = ENXIO /\ Len(ev') = 3 ]_vars

C23_Witness ==
    /\ op = "GetStatus" /\ pc = "idle" /\ result = EOK /\ pDev.fd = -1 /\ AllClosed
    /\ Len(Events(ev, "open")) = 1 /\ Len(Events(ev, "read")) = 2
    /\ ev[Len(ev)].call = "close" /\ pDev.busy

C25_NothingOpenAtExit ==
    pc = "exited" => (AllClosed /\ pDev.fd = -1)

\* the strobe bit of a transferred register byte
StrobeOf(b) == (b \div 4) % 2

\* C26: whenever an operation has returned and a byte has been transferred
\* before, the register image in memory equals the byte last transferred; and
\* a latch call, which sets the strobe bit and then clears it, transfers the
\* image after each of the two changes.
C26_ImageIsLastTransfer ==
    /\ []((pc = "idle" /\ sent # -1) => sent = RegVal(pDev.reg))
    /\ [][ (pc = "idle" /\ pc' = "idle" /\ op' = "latch" /\ vars' # vars) =>
             /\ Len(WriteVals(ev')) = 2
             /\ StrobeOf(WriteVals(ev')[1]) = 1
             /\ WriteVals(ev')[2] = RegVal(pDev'.reg) ]_vars

\* the instruction byte each call is to send
OpcodeOf(name, a) ==
    CASE name = "ClearDisplay" -> 1
      [] name = "CursorHome" -> 2
      [] name = "Cursor" -> 15
      [] name = "SetADD" -> 128 + a.n

Instructions == {"ClearDisplay", "CursorHome", "SetADD", "Cursor"}

\* C27: SetADD(a), for a in 0..127, issues exactly one writeByte, with
\* registerSelect 0 and value 0x80 | a; ClearDisplay, CursorHome and Cursor
\* issue exactly one with registerSelect 0 and values 0x01, 0x02, 0x0F.  The
\* byte writeByte is working on is that value, its register images carry
\* RS = 0 and the value's two nibbles, and the call returns writeByte's result.
C27_InstructionOpcodes ==
    /\ [](op \in Instructions =>
            /\ fr.calls = <<[fn |-> "writeByte", rs |-> 0, val |-> OpcodeOf(op, arg)]>>
            /\ (pc = "writeByte" =>
                  /\ wb.rs = 0 /\ wb.val = OpcodeOf(op, arg)
                  /\ wb.xfers = SubSeq(WriteByteImages(0, OpcodeOf(op, arg)), 1, Before(wb.pc))))
    /\ [][ (op \in Instructions /\ pc = "writeByte" /\ pc' = "idle") =>
             (result' = wb.result /\ op' = op /\ fr' = fr) ]_vars

\* SetADD( 0x40 ), the start of the second line, with both nibbles out
C27_Witness ==
    /\ op = "SetADD" /\ arg = IntValue(64) /\ pc = "writeByte" /\ wb.pc = "ret"
    /\ wb.val = 192 /\ wb.xfers = WriteByteImages(0, 192) /\ pDev.fd # -1
    /\ wb.xfers[2] = 4 + 8 * pDev.reg.LED + 16 * 12

\* an LCDClose call made with a connection held returns in this step
ClosesHeld ==
    pc = "idle" /\ pc' = "idle" /\ op' = "LCDClose" /\ pDev.fd # -1

Bracketed == {"LCDInit", "DisplayLine"}

\* C29: in shared mode with the connection Closed, a DisplayLine or LCDInit
\* call starts with the one open() of the call; if that open or the address
\* configuration fails the call returns the error with nothing left open.
\* Otherwise every later step of the call makes its transfers and status
\* reads on that descriptor, with no open, ioctl or close, until the last step
\* closes it, once, and leaves fd = -1.
C29_OneConnectionPerCall ==
    /\ [][ (pc = "idle" /\ op' \in Bracketed /\ pDev.fd = -1 /\ ~pDev.exclusive) =>
             /\ Len(Events(ev', "open")) = 1 /\ ev'[1].call = "open"
             /\ IF pc' # "idle"
                THEN /\ pDev'.fd = ev'[1].fd /\ files'[pDev'.fd].open
                     /\ Calls(ev') = <<"open", "ioctl", "write">>
                     /\ \A f \in FDs \ {pDev'.fd} : ~files'[f].open
                ELSE /\ result' # EOK /\ pDev'.fd = -1 /\ AllClosed'
                     /\ Len(Events(ev', "close")) = (IF ev'[1].ok THEN 1 ELSE 0) ]_vars
    /\ [][ (pc # "idle" /\ op \in Bracketed /\ ~pDev.exclusive) =>
             /\ pDev.fd # -1
             /\ \A i \in 1..Len(ev') :
                   /\ ev'[i].fd = pDev.fd
                   /\ ev'[i].call \notin {"open", "ioctl"}
                   /\ (ev'[i].call = "close" => (pc' = "idle" /\ i = Len(ev')))
             /\ (pc' # "idle" => (pDev'.fd = pDev.fd /\ files' = files))
             /\ (pc' = "idle" =>
                   /\ Len(Events(ev', "close")) = 1
                   /\ pDev'.fd = -1 /\ AllClosed') ]_vars

\* the last poll of LCDInit's cursor instruction, on the descriptor the call
\* opened in shared mode
C29_Witness ==
    /\ op = "LCDInit" /\ pc = "Cursor" /\ wb.pc = "ret" /\ ~pDev.exclusive
    /\ pDev.fd # -1 /\ files[pDev.fd].open /\ ~files[pDev.fd].excl
    /\ Len(Events(ev, "read")) = 2 /\ \A i \in 1..Len(ev) : ev[i].fd = pDev.fd

\* a latch call returns in this step
LatchReturns == pc = "idle" /\ pc' = "idle" /\ op' = "latch" /\ vars' # vars

\* the register byte of the image before the call with the strobe bit as given
Strobed(en) == RegVal([pDev.reg EXCEPT !.EN = en])

ReadByteReturns ==
    pc = "idle" /\ pc' = "idle" /\ op' = "readByte" /\ pDev.fd # -1 /\ vars' # vars

\* the register byte readByte puts out: RS = 0, RW = 1, all data lines high
StatusImage(en) == 2 + 4 * en + 8 * pDev.reg.LED + 16 * 15

\* C31: with a connection held readByte stages RS = 0, RW = 1 and data
\* nibble 0xF and transfers that image, then twice raises the strobe
\* (transfer), samples (read) and lowers the strobe (transfer), all on the held
\* descriptor; it returns EOK with the strobe low and nothing else in the
\* context changed, and when both samples were read the byte it returns is
\* the upper nibble of the first sample in bits 7..4 and the upper nibble of
\* the second sample in bits 3..0.
C31_ReadByteSequence ==
    [][ ReadByteReturns =>
          /\ result' = EOK
          /\ Calls(ev') = <<"write", "write", "read", "write", "write", "read", "write">>
          /\ \A i \in 1..Len(ev') : ev'[i].fd = pDev.fd
          /\ WriteVals(ev') = <<StatusImage(0), StatusImage(1), StatusImage(0),
                                StatusImage(1), StatusImage(0)>>
          /\ pDev' = [pDev EXCEPT !.reg = [RS |-> 0, RW |-> 1, EN |-> 0,
                                           LED |-> pDev.reg.LED, D4 |-> 15]]
          /\ files' = files
          /\ ((ev'[3].ok /\ ev'[6].ok) =>
                out' = IntValue(16 * (ev'[3].val \div 16) + (ev'[6].val \div 16))) ]_vars

\* first sample 0x8_, second sample 0x0_: status byte 0x80
C31_Witness ==
    /\ op = "readByte" /\ pc = "idle" /\ result = EOK /\ pDev.fd # -1
    /\ Len(ev) = 7 /\ ev[3].ok /\ ev[6].ok
    /\ ev[3].val \div 16 = 8 /\ ev[6].val \div 16 = 0 /\ out = IntValue(128)
    /\ pDev.reg.EN = 0 /\ sent = RegVal(pDev.reg)

\* HandleSignal has chosen its branch in this step
Dispatched == pc = "idle" /\ pc' = "idle" /\ arg'.kind = "signal" /\ vars' # vars

\* C32: HandleSignal goes by the signal number it was given: for
\* SIG_VAR_MODIFIED it calls OnChange, which picks the update function of the
\* variable handle in id (ENOENT for any other handle); for SIG_VAR_PRINT it
\* prints the status and returns EOK; for any other number it returns ENOTSUP
\* and touches neither the bus nor the context.
C32_DispatchOnSignum ==
    [][ Dispatched =>
          CASE arg'.s = "SIG_VAR_MODIFIED" ->
                 IF arg'.n = hVarBacklight THEN op' = "UpdateBacklight"
                 ELSE IF arg'.n = hVarLine1 THEN op' = "UpdateLine1"
                 ELSE IF arg'.n = hVarLine2 THEN op' = "UpdateLine2"
                 ELSE op' = "OnChange" /\ result' = ENOENT
            [] arg'.s = "SIG_VAR_PRINT" ->
                 op' = "PrintStatus" /\ result' = EOK /\ ev' = <<>> /\ pDev' = pDev
            [] OTHER ->
                 op' = "HandleSignal" /\ result' = ENOTSUP /\ ev' = <<>> /\ pDev' = pDev ]_vars

\* the image part of C33 alone: no operation in progress, strobe bit 0
StrobeLowWhenIdle == pc = "idle" => pDev.reg.EN = 0

\* C33: the strobe bit of the register image is 0 whenever no operation is
\* in progress, every byte LCDOpen and SetBacklight transfer has the strobe
\* bit 0, and such a transfer never completes a strobe pulse: it is not made
\* while the last byte sent to the expander had the strobe high.
C33_StrobeLowBetweenCalls ==
    /\ []StrobeLowWhenIdle
    /\ [][ (pc = "idle" /\ pc' = "idle" /\ op' \in {"LCDOpen", "SetBacklight"}
              /\ vars' # vars) =>
             /\ \A i \in 1..Len(WriteVals(ev')) : StrobeOf(WriteVals(ev')[i]) = 0
             /\ ~(sent # -1 /\ StrobeOf(sent) = 1 /\ WriteVals(ev') # <<>>) ]_vars

\* the backlight bit of a transferred register byte
BacklightOf(b) == (b \div 8) % 2

\* C34: the backlight bit of the register image is changed by SetBacklight
\* only: no step of any other operation changes it, and every byte such a
\* step transfers carries the backlight value the image held before the step.
C34_BacklightOnlyBySetBacklight ==
    [][ /\ (pDev'.reg.LED # pDev.reg.LED => (pc = "idle" /\ op' = "SetBacklight"))
        /\ ((op' # "SetBacklight" /\ ev' # ev) =>
               \A i \in 1..Len(WriteVals(ev')) :
                   BacklightOf(WriteVals(ev')[i]) = pDev.reg.LED) ]_vars

\* DisplayLine is under way with the backlight off, and the step just taken
\* read the status register: its transfers carried the backlight bit 0
C34_Witness ==
    /\ op = "DisplayLine" /\ pc # "idle" /\ pDev.reg.LED = 0
    /\ Len(WriteVals(ev)) = 5
    /\ \A i \in 1..5 : BacklightOf(WriteVals(ev)[i]) = 0

\* a SetBacklight call has just returned
SetBacklightReturns == pc = "idle" /\ pc' = "idle" /\ op' = "SetBacklight" /\ vars' # vars

\* the context after SetBacklight( pDev, arg'.b ): the backlight bit alone is new
BacklightSet == [pDev EXCEPT !.reg.LED = IF arg'.b THEN 1 ELSE 0]

\* C35 as stated: every SetBacklight call changes the backlight bit only and
\* makes exactly one register transfer.
C35_ExactlyOneTransfer ==
    [][ SetBacklightReturns =>
          (pDev' = BacklightSet /\ files' = files
             /\ WriteVals(ev') = <<RegVal(pDev'.reg)>>) ]_vars

\* C35, amended: SetBacklight changes the backlight bit of the image and
\* nothing else of the context or the descriptor table; it makes no status
\* read and at most one transfer, of the new image: a plain write on a held
\* connection, open-ioctl-write-close when Closed and the open and the
\* address configuration succeed, and no transfer at all otherwise.
C35_SetBacklightFrame ==
    [][ SetBacklightReturns =>
          /\ pDev' = BacklightSet
          /\ files' = files
          /\ Events(ev', "read") = <<>>
          /\ \A i \in 1..Len(WriteVals(ev')) : WriteVals(ev')[i] = RegVal(pDev'.reg)
          /\ (pDev.fd # -1 => (Calls(ev') = <<"write">> /\ ev'[1].fd = pDev.fd))
          /\ (pDev.fd = -1 =>
                 \/ Calls(ev') = <<"open", "ioctl", "write", "close">>
                 \/ WriteVals(ev') = <<>>)
          /\ ((pDev.fd = -1 /\ pDev.device # NULL /\ Failed(ev') = <<>> /\ ev' # <<>>) =>
                 Calls(ev') = <<"open", "ioctl", "write", "close">>) ]_vars

\* SetBacklight( pDev, false ) has returned with nothing held: one transient
\* transfer of the image with the backlight bit clear
C35_Witness ==
    /\ op = "SetBacklight" /\ pc = "idle" /\ arg = BoolValue(FALSE)
    /\ pDev.fd = -1 /\ AllClosed /\ pDev.reg.LED = 0
    /\ Calls(ev) = <<"open", "ioctl", "write", "close">>
    /\ WriteVals(ev) = <<RegVal(pDev.reg)>>

\* C36: a GetStatus, readStatus or readByte call that returns an error leaves
\* the whole context, and with it the busy flag, the address counter, the
\* cursor column and row and the register image, exactly as before the call;
\* it makes no transfer and takes no sample, and leaves no descriptor open
\* that was not open before.
C36_FailedStatusReadChangesNothing ==
    [][ (pc = "idle" /\ pc' = "idle" /\ op' \in {"GetStatus", "readStatus", "readByte"}
           /\ result' # EOK) =>
          /\ pDev' = pDev
          /\ files' = files
          /\ sent' = sent
          /\ Events(ev', "read") = <<>>
          /\ Events(ev', "write") = <<>> ]_vars

\* an earlier GetStatus left busy set and a cursor position, and a GetStatus
\* has now failed to address the device
C36_Witness ==
    /\ op = "GetStatus" /\ pc = "idle" /\ result = ENXIO
    /\ Calls(ev) = <<"open", "ioctl", "close">>
    /\ pDev.busy /\ pDev.cx # 0 /\ pDev.fd = -1

\* the step is a poll of writeByte whose GetStatus returned an error without
\* sampling the controller
FailedPoll ==
    /\ op = "writeByte" /\ wb.pc = "poll" /\ vars' # vars
    /\ wb'.result # EOK /\ Events(ev', "read") = <<>>

\* C37: inside a writeByte call a poll that fails without sampling the
\* controller changes nothing of the context; with the stored busy flag true
\* it leaves the call in the poll loop, busy still true, so the call does not
\* return while polls keep failing; with busy false it ends the loop, and the
\* call returns the error of that poll.
C37_FailedPollsNeverEndWhileBusy ==
    [][ /\ (FailedPoll => pDev' = pDev)
        /\ ((FailedPoll /\ pDev.busy) =>
               (wb'.pc = "poll" /\ pc' = "writeByte" /\ pDev'.busy))
        /\ ((FailedPoll /\ ~pDev.busy) => wb'.pc = "ret")
        /\ ((op = "writeByte" /\ pc = "writeByte" /\ pc' = "idle") =>
               (wb.pc = "ret" /\ ~pDev.busy /\ result' = wb.result)) ]_vars

\* a direct GetStatus left busy set; writeByte, called with nothing held, is
\* in its poll loop after a poll that failed to open the device
C37_Witness ==
    /\ op = "writeByte" /\ pc = "writeByte" /\ wb.pc = "poll"
    /\ pDev.busy /\ pDev.fd = -1
    /\ wb.result \notin {EOK, EINVAL}
    /\ Calls(ev) = <<"open">>

\* writeByte is about to return the error of its single, failed poll
C37_WitnessReady ==
    /\ op = "writeByte" /\ pc = "writeByte" /\ wb.pc = "ret"
    /\ ~pDev.busy /\ wb.result \notin {EOK, EINVAL}
    /\ Events(ev, "read") = <<>>

\* LCDInit is past Set4BitMode: in ClearDisplay, CursorHome or Cursor
AfterFunctionSet == op = "LCDInit" /\ pc \in {"ClearDisplay", "CursorHome", "Cursor"}

\* C38: LCDInit's result is decided by LCDOpen and by the results rc1 and rc2
\* of the two function-set writes: a failed open is returned as it is; after
\* the open, ENXIO is returned unless both writes returned EOK; and once both
\* did, the result is EOK whatever the clear-display, cursor-home and
\* cursor-mode writes return and whether or not their transfers succeed.
C38_ResultFromOpenAndFunctionSet ==
    [][ /\ (pc = "idle" /\ pc' = "idle" /\ op' = "LCDInit" /\ vars' # vars) =>
               result' # EOK
        /\ (op = "LCDInit" /\ pc = "Set4BitMode_rc2" /\ pc' # pc) =>
               IF fr.rc1 = EOK /\ wb.result = EOK
               THEN pc' = "ClearDisplay" /\ fr'.result = EOK
               ELSE pc' = "idle" /\ result' = ENXIO
        /\ (AfterFunctionSet /\ vars' # vars) =>
               /\ fr.result = EOK /\ fr.rc1 = EOK
               /\ (pc' = "idle" => result' = EOK)
               /\ (pc' # "idle" => fr'.result = EOK) ]_vars

\* both function-set writes returned EOK, the cursor-mode write has
\* finished and every write() of its last step failed: LCDInit is at its
\* return, with EOK as the result it hands back
C38_Witness ==
    /\ AfterFunctionSet /\ pc = "Cursor" /\ wb.pc = "ret"
    /\ fr.result = EOK
    /\ Events(ev, "write") # <<>>
    /\ \A i \in 1..Len(Events(ev, "write")) : ~Events(ev, "write")[i].ok

\* a DisplayLine call has returned without reaching its first writeByte
DisplayLineRefused == pc = "idle" /\ pc' = "idle" /\ op' = "DisplayLine" /\ vars' # vars

\* C39: a DisplayLine call that returns from its entry - the text is null or
\* LCDOpen failed - returns EINVAL, ENODEV, the error of open() or ENXIO,
\* makes no register transfer and no status read, and leaves the context
\* (register image, busy flag, address counter, cursor, stored handle), the
\* descriptor table and the last byte sent as they were.
C39_RefusedDisplayLineChangesNothing ==
    [][ DisplayLineRefused =>
          /\ result' \in {EINVAL, ENODEV, ENOENT, EMFILE, ENXIO}
          /\ pDev' = pDev
          /\ files' = files
          /\ sent' = sent
          /\ Events(ev', "write") = <<>>
          /\ Events(ev', "read") = <<>>
          /\ (result' = EINVAL => ev' = <<>>)
          /\ (result' = ENODEV => (ev' = <<>> /\ pDev.device = NULL))
          /\ (result' \in {ENOENT, EMFILE} => Calls(ev') = <<"open">>)
          /\ (result' = ENXIO => Calls(ev') = <<"open", "ioctl", "close">>) ]_vars

\* DisplayLine with a null text has returned EINVAL on a held connection
\* whose context carries an earlier status read
C39_Witness ==
    /\ op = "DisplayLine" /\ pc = "idle" /\ result = EINVAL /\ ev = <<>>
    /\ pDev.fd # -1 /\ pDev.cx # 0

\* DisplayLine has returned the error of its failed open
C39_WitnessOpen ==
    /\ op = "DisplayLine" /\ pc = "idle" /\ result = ENOENT
    /\ Calls(ev) = <<"open">> /\ pDev.fd = -1 /\ pDev.cx # 0

====
